---- MODULE Spec2Model ----
(***************************************************************************)
(* Geocoding-and-cross-reference pipeline of WhoVoted: the job scheduler   *)
(* (backend/app.py), ProcessingJob.run (backend/processor.py) and the      *)
(* address cache, rate limiter and provider chain (backend/geocoder.py).   *)
(***************************************************************************)
EXTENDS Integers, Sequences, FiniteSets, TLC

(***************************************************************************)
(* Bounds of the model.                                                    *)
(***************************************************************************)
MaxJobs == 4        \* jobs accepted in Spec
MaxRequests == 5    \* upload requests received in Spec
FairJobs == 4       \* jobs accepted in FairSpec
FairRequests == 3   \* upload requests received in FairSpec
MaxAddrLen == 3     \* items of an address string in NormSpec
NumCaches == 2      \* jobs, each with its GeocodingCache, in CacheSpec
MaxSets == 2        \* set() calls of one GeocodingCache in CacheSpec
SoloSets == 3       \* set() calls of the GeocodingCache in SetGetSpec
MaxGeocodes == 2    \* geocode() calls of the orchestrator in GeoSpec
MaxLimit == 2       \* largest max_requests of a RateLimiter
MaxPeriod == 2      \* largest period of a RateLimiter, in clock ticks
MaxClock == 5       \* last clock tick
MaxWaits == 4       \* wait() calls begun
NumCallers == 2     \* worker threads calling wait() in SharedLimiterSpec
MaxDataJobs == 3    \* jobs run one after another over the data directory in DataSpec
MaxDate == 2        \* election and roster dates are 1..MaxDate
MaxRows == 2        \* rows of an upload in PipelineSpec
MaxPipeJobs == 2    \* jobs run one after another in PipelineSpec
MaxRecords == 3     \* records of the data frame geocoded in ParallelSpec
MaxWorkers == 2     \* largest max_workers of the thread pool in ParallelSpec
LockJobs == 2       \* jobs accepted in LockSpec
LockRequests == 2   \* upload requests received in LockSpec
MaxOutputJobs == 3  \* standard jobs reaching generate_outputs in OutputSpec
MaxProcessors == 2  \* 'job_processor' threads alive in OutputSpec
MaxCreated == 1     \* jobs created by upload_csv and waiting to run
MaxDocs == 2        \* metadata documents in the data directory in CrossRefSpec

(***************************************************************************)
(* Program constants.                                                      *)
(***************************************************************************)
max_concurrent_jobs == 3

VARIABLES
  active_jobs,   \* app.py active_jobs: job id -> ProcessingJob.status
  job_queue,     \* app.py job_queue: list of job ids waiting for a scheduler
  run_pc,        \* position of each job inside ProcessingJob.run()
  begun,         \* number of upload requests received so far
  uploading,     \* requests inside the per-file loop of upload_csv
  starting,      \* requests in start_job_processor past the thread check
  schedulers     \* the threads named 'job_processor': position and jobs_to_run

schedVars == <<active_jobs, job_queue, run_pc, begun, uploading, starting, schedulers>>

VARIABLES
  address,       \* the string handed to normalize_address
  normalized,    \* normalize_address(address), once it is computed
  renormalized   \* normalize_address(normalized), once it is computed

normVars == <<address, normalized, renormalized>>

VARIABLES
  inodes,        \* file system: inode -> content, a sequence of chunks
  paths,         \* file system: the inode at the cache file path and at its '.tmp' path
  caches,        \* per job: its GeocodingCache (self.cache) and its position in set()/save_cache()
  images         \* every serialization json.dump was asked to write

cacheVars == <<inodes, paths, caches, images>>

VARIABLES
  aws_client,    \* NominatimGeocoder.aws_geocoder.client is set (AWS is configured)
  stats,         \* the call counters of the orchestrator and of each provider
  geo            \* the geocode() call in progress, or the last one

geoVars == <<aws_client, stats, geo>>

VARIABLES
  clock,         \* time.time(), in ticks
  limiter,       \* the RateLimiter: max_requests, period, requests
  callers,       \* per thread: its position in wait() and its locals
  admissions,    \* the times at which wait() admitted a call, in order
  waits_begun    \* number of wait() calls begun

limiterVars == <<clock, limiter, callers, admissions, waits_begun>>

VARIABLES
  data_dir,      \* Config.DATA_DIR: dataset name -> its map_data features and metadata
  public_dir,    \* Config.PUBLIC_DIR / 'data': the copies made by the deploy steps
  last_job       \* the job that ran last over the data directory, and what it emitted

dataVars == <<data_dir, public_dir, last_job>>

VARIABLES
  current_job,   \* the ProcessingJob whose run() is under way, or the last one to end
  disk,          \* what outlives a job: the geocoding cache, the data and the public directory
  disk_before,   \* disk as it was when current_job was constructed
  constructed    \* number of ProcessingJobs constructed so far

pipeVars == <<current_job, disk, disk_before, constructed>>

VARIABLES
  counts,        \* the job's total_records, processed_records, geocoded_count, failed_count
  futures,       \* per record of the data frame: where its geocoding stands
  results_lock,  \* holder of results_lock: 0 when free
  collector,     \* the thread running geocode_addresses: its position and locals
  applied        \* per counter, the number of += statements completed on it

workVars == <<counts, futures, results_lock, collector, applied>>

VARIABLES
  xref           \* the last cross_reference call: its engine, its row and what it used and returned

xrefVars == <<xref>>

VARIABLES
  data_meta,     \* Config.DATA_DIR: metadata file name -> its document (with its map_data sibling)
  public_meta,   \* Config.PUBLIC_DIR / 'data': the same, for the deployed pairs
  created_jobs,  \* the ProcessingJobs upload_csv created, not yet run
  last_upload    \* the last step: queued, skipped, invalid, written or failed, and its fields

uploadVars == <<data_meta, public_meta, created_jobs, last_upload>>

VARIABLES
  jobs_lock,     \* app.py jobs_lock: 0 when free, else the thread inside 'with jobs_lock'
  saving         \* the schedulers between the return of job.run() and the end of save_jobs_to_disk

lockVars == <<jobs_lock, saving>>

VARIABLES
  outputs,       \* Config.DATA_DIR: output file name -> the job whose generate_outputs wrote it last
  processors,    \* the 'job_processor' threads: the job each runs and its place in generate_outputs
  started        \* number of standard jobs whose generate_outputs was entered

aliasVars == <<outputs, processors, started>>

vars == <<schedVars, normVars, cacheVars, geoVars, limiterVars, dataVars, pipeVars, workVars, xrefVars, uploadVars, lockVars, aliasVars>>

Min(a, b) == IF a < b THEN a ELSE b

\* sum(1 for job in active_jobs.values() if job.status == 'running')
RunningCount == Cardinality({j \in DOMAIN active_jobs : active_jobs[j] = "running"})

\* number of queued jobs one pass of the scheduler pops
Admitted(running_count, queue_len) ==
  LET available_slots == max_concurrent_jobs - running_count
  IN  IF available_slots > 0 /\ queue_len > 0
        THEN Min(available_slots, queue_len)
        ELSE 0

----------------------------------------------------------------------------
(* Address strings and GeocodingCache.normalize_address *)

\* A string is a sequence of items: a word (a maximal run of word
\* characters), a blank or a comma.  Two words are never adjacent.
Abbreviations ==
  <<"ST", "AVE", "RD", "DR", "LN", "CT", "APT", "N", "S", "E", "W",
    "BLVD", "CIR", "PKWY", "HWY", "TX">>

\* ReplacementsOf, without the line that spells out the state
ReplacementsWithoutTX(abbr) ==
  CASE abbr = "ST" -> "STREET"
    [] abbr = "AVE" -> "AVENUE"
    [] abbr = "RD" -> "ROAD"
    [] abbr = "DR" -> "DRIVE"
    [] abbr = "LN" -> "LANE"
    [] abbr = "CT" -> "COURT"
    [] abbr = "APT" -> "APARTMENT"
    [] abbr = "N" -> "NORTH"
    [] abbr = "S" -> "SOUTH"
    [] abbr = "E" -> "EAST"
    [] abbr = "W" -> "WEST"
    [] abbr = "BLVD" -> "BOULEVARD"
    [] abbr = "CIR" -> "CIRCLE"
    [] abbr = "PKWY" -> "PARKWAY"
    [] abbr = "HWY" -> "HIGHWAY"
    [] OTHER -> abbr

\* the replacements dict: pattern \bABBR\b -> replacement
ReplacementsOf(abbr) ==
  CASE abbr = "ST" -> "STREET"
    [] abbr = "AVE" -> "AVENUE"
    [] abbr = "RD" -> "ROAD"
    [] abbr = "DR" -> "DRIVE"
    [] abbr = "LN" -> "LANE"
    [] abbr = "CT" -> "COURT"
    [] abbr = "APT" -> "APARTMENT"
    [] abbr = "N" -> "NORTH"
    [] abbr = "S" -> "SOUTH"
    [] abbr = "E" -> "EAST"
    [] abbr = "W" -> "WEST"
    [] abbr = "BLVD" -> "BOULEVARD"
    [] abbr = "CIR" -> "CIRCLE"
    [] abbr = "PKWY" -> "PARKWAY"
    [] abbr = "HWY" -> "HIGHWAY"
    [] abbr = "TX" -> "TEXAS"

Expansions == {ReplacementsOf(Abbreviations[i]) : i \in 1..Len(Abbreviations)}

LowerWords == {"st", "tx", "Texas", "main", "n"}

OtherWords == {"MAIN", "1ST", "78501"}

Words == {Abbreviations[i] : i \in 1..Len(Abbreviations)} \cup Expansions
           \cup LowerWords \cup OtherWords

Blank == " "
Comma == ","
Items == Words \cup {Blank, Comma}

\* str.upper on one item
Upper(item) ==
  CASE item = "st" -> "ST"
    [] item = "tx" -> "TX"
    [] item = "Texas" -> "TEXAS"
    [] item = "main" -> "MAIN"
    [] item = "n" -> "N"
    [] OTHER -> item

\* address.upper()
UpperStr(str) == [i \in 1..Len(str) |-> Upper(str[i])]

\* ' '.join(s.split()): blanks at either end go, runs of blanks become one
RECURSIVE CollapseBlanks(_)
CollapseBlanks(str) ==
  IF str = << >> THEN << >>
  ELSE IF Head(str) = Blank
    THEN LET rest == CollapseBlanks(Tail(str))
         IN  IF rest = << >> THEN << >>
             ELSE IF Len(Tail(str)) > 0 /\ Head(Tail(str)) = Blank THEN rest
             ELSE <<Blank>> \o rest
    ELSE <<Head(str)>> \o CollapseBlanks(Tail(str))

StripLeft(str) == IF str # << >> /\ Head(str) = Blank THEN Tail(str) ELSE str

JoinSplit(str) == StripLeft(CollapseBlanks(str))

\* re.sub(r'\bABBR\b', replacement, s): every whole word ABBR is replaced
ReSub(abbr, str) ==
  [i \in 1..Len(str) |-> IF str[i] = abbr THEN ReplacementsOf(abbr) ELSE str[i]]

\* the loop over replacements.items(), in the order of the dict
RECURSIVE ApplyReplacements(_, _)
ApplyReplacements(k, str) ==
  IF k > Len(Abbreviations) THEN str
  ELSE ApplyReplacements(k + 1, ReSub(Abbreviations[k], str))

normalize_address(str) ==
  IF str = << >> THEN << >>
  ELSE ApplyReplacements(1, JoinSplit(UpperStr(str)))

\* the strings of at most n items in which no two words are adjacent
WellFormed(str) ==
  \A i \in 1..(Len(str) - 1) : ~(str[i] \in Words /\ str[i + 1] \in Words)

Strings(n) ==
  {str \in UNION {[1..k -> Items] : k \in 0..n} : WellFormed(str)}

NotYet == <<"?">>

NormInit ==
  /\ address \in Strings(MaxAddrLen)
  /\ normalized = NotYet
  /\ renormalized = NotYet

Normalize ==
  /\ normalized = NotYet
  /\ normalized' = normalize_address(address)
  /\ UNCHANGED <<address, renormalized>>

Renormalize ==
  /\ normalized # NotYet
  /\ renormalized = NotYet
  /\ renormalized' = normalize_address(normalized)
  /\ UNCHANGED <<address, normalized>>

NormNext == (Normalize \/ Renormalize) /\ UNCHANGED <<schedVars, cacheVars, geoVars, limiterVars, dataVars, pipeVars, workVars, xrefVars, uploadVars, lockVars, aliasVars>>

----------------------------------------------------------------------------
(* GeocodingCache: get, set, size, load_cache, save_cache *)

\* The cache is a dict in insertion order: a sequence of entries.
NoSource == ""
NoFallback == ""
\* a result without the original_address key the ZIP fallback adds
NoOriginal == << >>
NoResult == [lat |-> 0, lng |-> 0, source |-> NoSource, fallback |-> NoFallback,
             original_address |-> NoOriginal]
End == [key |-> <<"}">>, val |-> NoResult]     \* the closing chunk of the document
Hole == [key |-> <<"\\0">>, val |-> NoResult]  \* a block never written

HasKey(cache, key) == \E i \in 1..Len(cache) : cache[i].key = key

\* dict.get(key): the value, or None
None == [lat |-> 0, lng |-> 0, source |-> "None", fallback |-> NoFallback,
         original_address |-> NoOriginal]
DictGet(cache, key) ==
  IF HasKey(cache, key)
    THEN cache[CHOOSE i \in 1..Len(cache) : cache[i].key = key].val
    ELSE None

\* dict[key] = val
DictPut(cache, key, val) ==
  IF HasKey(cache, key)
    THEN [i \in 1..Len(cache) |-> IF cache[i].key = key THEN [key |-> key, val |-> val] ELSE cache[i]]
    ELSE Append(cache, [key |-> key, val |-> val])

\* str.replace(' TEXAS ', ' TX '): non-overlapping matches, left to right
RECURSIVE ReplaceTexas(_)
ReplaceTexas(str) ==
  IF Len(str) < 3 THEN str
  ELSE IF str[1] = Blank /\ str[2] = "TEXAS" /\ str[3] = Blank
    THEN <<Blank, "TX", Blank>> \o ReplaceTexas(SubSeq(str, 4, Len(str)))
    ELSE <<Head(str)>> \o ReplaceTexas(Tail(str))

\* GeocodingCache.get
CacheGet(cache, addr) ==
  LET norm == normalize_address(addr)
      norm_tx == ReplaceTexas(norm)
  IN  IF DictGet(cache, norm) # None THEN DictGet(cache, norm)
      ELSE IF DictGet(cache, norm_tx) # None THEN DictGet(cache, norm_tx)
      ELSE DictGet(cache, addr)

\* the metadata set() adds to the result before storing it
WithMetadata(result) ==
  IF result.source = NoSource THEN [result EXCEPT !.source = "unknown"] ELSE result

\* CacheSet, storing under the address as given
CacheSetRawKey(cache, addr, result) == DictPut(cache, addr, WithMetadata(result))

\* GeocodingCache.set, the in-memory part
CacheSet(cache, addr, result) == DictPut(cache, normalize_address(addr), WithMetadata(result))

\* GeocodingCache.size
CacheSize(cache) == Len(cache)

\* json.dump(self.cache, f): the entries in order, then the closing chunk
Encode(cache) == Append(cache, End)

\* json.load: a document is entries closed by one closing chunk; on a key
\* written twice the later value stands.  Anything else raises.
Parses(content) ==
  /\ Len(content) > 0
  /\ content[Len(content)] = End
  /\ \A i \in 1..(Len(content) - 1) : content[i] # End /\ content[i] # Hole

RECURSIVE DictOf(_, _)
DictOf(content, acc) ==
  IF content = << >> \/ Head(content) = End THEN acc
  ELSE DictOf(Tail(content), DictPut(acc, Head(content).key, Head(content).val))

\* the content at the cache file path, << >> when there is no file
CacheFileContent == IF paths.cache = 0 THEN << >> ELSE inodes[paths.cache]

\* GeocodingCache.load_cache
load_cache ==
  IF paths.cache # 0 /\ Parses(CacheFileContent) THEN DictOf(CacheFileContent, << >>) ELSE << >>

\* write(2) of one chunk at an offset: overwrites, appends, or leaves a hole
WriteAt(content, offset, chunk) ==
  IF offset < Len(content) THEN [content EXCEPT ![offset + 1] = chunk]
  ELSE content \o [i \in 1..(offset - Len(content)) |-> Hole] \o <<chunk>>

CacheIds == 1..NumCaches

\* the inodes still reachable once the file descriptors are as in cs
Live(ps, cs) == ({ps.cache, ps.tmp} \cup {cs[c].fd : c \in DOMAIN cs}) \ {0}

Reclaim(nodes, ps, cs) == [i \in Live(ps, cs) |-> nodes[i]]

FreshInode == CHOOSE i \in 1..(NumCaches + 3) : i \notin DOMAIN inodes

\* the addresses and results the jobs geocode
Addr1 == <<"MAIN", " ", "ST", ",", " ", "TX", " ", "78501">>
Addr1Long == <<"main", " ", "STREET", ",", " ", "Texas", " ", "78501">>
Addr2 == <<"1ST", " ", "AVE", ",", " ", "TX">>
CacheAddrs == {Addr1, Addr1Long, Addr2}
Result1 == [lat |-> 26, lng |-> -98, source |-> "census", fallback |-> NoFallback,
            original_address |-> NoOriginal]
Result2 == [lat |-> 27, lng |-> -97, source |-> NoSource, fallback |-> NoFallback,
            original_address |-> NoOriginal]
Results == {Result1, Result2}

\* an entry of the time when keys were written with the state abbreviated
LegacyEntry == [key |-> <<"MAIN", " ", "STREET", ",", " ", "TX", " ", "78501">>,
                val |-> [lat |-> 25, lng |-> -99, source |-> "nominatim", fallback |-> NoFallback,
                        original_address |-> NoOriginal]]

\* another, of an address written without ZIP code: the state ends the key
LegacyEntryEnd == [key |-> <<"1ST", " ", "AVENUE", ",", " ", "TX">>,
                   val |-> [lat |-> 24, lng |-> -99, source |-> "nominatim", fallback |-> NoFallback,
                           original_address |-> NoOriginal]]

NoCache == [pc |-> "absent", cache |-> << >>, fd |-> 0, offset |-> 0, pending |-> << >>,
            address |-> << >>, result |-> NoResult, sets |-> 0]

CacheIdle ==
  /\ inodes = << >>
  /\ paths = [cache |-> 0, tmp |-> 0]
  /\ caches = [c \in CacheIds |-> NoCache]
  /\ images = {}

\* the cache file does not exist yet
CacheInit == CacheIdle

\* the cache file does not exist yet, or is a document of earlier runs
SetGetInit ==
  /\ \/ inodes = << >> /\ paths = [cache |-> 0, tmp |-> 0]
     \/ inodes = <<Encode(<<LegacyEntry>>)>> /\ paths = [cache |-> 1, tmp |-> 0]
     \/ inodes = <<Encode(<<LegacyEntry, LegacyEntryEnd>>)>> /\ paths = [cache |-> 1, tmp |-> 0]
  /\ caches = [c \in CacheIds |-> NoCache]
  /\ images = {}

\* ProcessingJob.__init__: GeocodingCache(cache_file) loads the file
NewCache(c) ==
  /\ caches[c].pc = "absent"
  /\ caches' = [caches EXCEPT ![c] = [@ EXCEPT !.pc = "idle", !.cache = load_cache]]
  /\ UNCHANGED <<inodes, paths, images>>

\* set(address, result) up to open(temp_file, 'w') in save_cache: the dict
\* is updated under the instance's lock, the temp file is created or,
\* when it exists, truncated
SetAndOpen(c, addr, result, maxSets) ==
  /\ caches[c].pc = "idle"
  /\ caches[c].sets < maxSets
  /\ LET new == CacheSet(caches[c].cache, addr, result)
         node == IF paths.tmp = 0 THEN FreshInode ELSE paths.tmp
     IN  /\ caches' = [caches EXCEPT ![c] =
                         [pc |-> "writing", cache |-> new, fd |-> node, offset |-> 0,
                          pending |-> Encode(new), address |-> addr, result |-> result,
                          sets |-> @.sets + 1]]
         /\ inodes' = [i \in DOMAIN inodes \cup {node} |-> IF i = node THEN << >> ELSE inodes[i]]
         /\ paths' = [paths EXCEPT !.tmp = node]
         /\ images' = images \cup {Encode(new)}

\* json.dump hands the next chunk to the file
WriteChunk(c) ==
  /\ caches[c].pc = "writing"
  /\ caches[c].pending # << >>
  /\ inodes' = [inodes EXCEPT ![caches[c].fd] = WriteAt(@, caches[c].offset, Head(caches[c].pending))]
  /\ caches' = [caches EXCEPT ![c] = [@ EXCEPT !.offset = @ + 1, !.pending = Tail(@)]]
  /\ UNCHANGED <<paths, images>>

\* a write raises (the device is full, say): the file is closed and the
\* handler of save_cache logs the error
SaveFails(c) ==
  /\ caches[c].pc = "writing"
  /\ caches[c].pending # << >>
  /\ LET cs == [caches EXCEPT ![c] = [@ EXCEPT !.pc = "idle", !.fd = 0, !.offset = 0, !.pending = << >>,
                                              !.address = << >>, !.result = NoResult]]
     IN  /\ caches' = cs
         /\ inodes' = Reclaim(inodes, paths, cs)
  /\ UNCHANGED <<paths, images>>

\* the file is closed and temp_file.replace(cache_file) renames whatever is
\* at the temp path; with nothing there it raises and the handler logs
CloseAndReplace(c) ==
  /\ caches[c].pc = "writing"
  /\ caches[c].pending = << >>
  /\ LET cs == [caches EXCEPT ![c] = [@ EXCEPT !.pc = "idle", !.fd = 0, !.offset = 0,
                                              !.address = << >>, !.result = NoResult]]
         ps == IF paths.tmp # 0 THEN [cache |-> paths.tmp, tmp |-> 0] ELSE paths
     IN  /\ caches' = cs
         /\ paths' = ps
         /\ inodes' = Reclaim(inodes, ps, cs)
  /\ UNCHANGED images

\* the jobs of CacheSpec geocode two addresses
CacheNext ==
  /\ \E c \in CacheIds :
       \/ NewCache(c)
       \/ \E addr \in {Addr1, Addr2} : SetAndOpen(c, addr, Result1, MaxSets)
       \/ WriteChunk(c)
       \/ SaveFails(c)
       \/ CloseAndReplace(c)
  /\ UNCHANGED <<schedVars, normVars, geoVars, limiterVars, dataVars, pipeVars, workVars, xrefVars, uploadVars, lockVars, aliasVars>>

\* one job alone
SetGetNext ==
  /\ \/ NewCache(1)
     \/ \E addr \in CacheAddrs, result \in Results : SetAndOpen(1, addr, result, SoloSets)
     \/ WriteChunk(1)
     \/ SaveFails(1)
     \/ CloseAndReplace(1)
  /\ UNCHANGED <<schedVars, normVars, geoVars, limiterVars, dataVars, pipeVars, workVars, xrefVars, uploadVars, lockVars, aliasVars>>

----------------------------------------------------------------------------
(* NominatimGeocoder.geocode and the providers *)

\* Chain, with Photon tried before Census
ChainPhotonFirst ==
  IF aws_client THEN <<"aws", "photon", "census", "nominatim">>
  ELSE <<"photon", "census", "nominatim">>

\* the providers in the order geocode() tries them
Chain ==
  IF aws_client THEN <<"aws", "census", "photon", "nominatim">>
  ELSE <<"census", "photon", "nominatim">>

IndexIn(chain, p) == CHOOSE i \in 1..Len(chain) : chain[i] = p

\* re.search(r'\b(\d{5})\b', address)
ZipWords == {"78501"}
HasZip(addr) == \E i \in 1..Len(addr) : addr[i] \in ZipWords
ZipOf(addr) == addr[CHOOSE i \in 1..Len(addr) : addr[i] \in ZipWords /\ \A j \in 1..(i - 1) : addr[j] \notin ZipWords]

\* f"{zip_code}, Texas, USA"
ZipAddress(addr) == <<ZipOf(addr), ",", " ", "Texas", ",", " ", "USA">>

\* what a provider answers when it finds the query: its own coordinates
\* (those of the ZIP area for a ZIP query), with the source it names
Answer(p, query, addr) ==
  [lat |-> IndexIn(<<"aws", "census", "photon", "nominatim">>, p) + (IF query = addr THEN 0 ELSE 10),
   lng |-> -98,
   source |-> CASE p = "aws" -> "aws_location"
                [] p = "census" -> "census"
                [] p = "photon" -> "photon"
                [] p = "nominatim" -> NoSource,
   fallback |-> NoFallback,
   original_address |-> NoOriginal]

ProviderStats == [api_calls |-> 0, failures |-> 0]

NoStats ==
  [aws |-> ProviderStats, census |-> ProviderStats, photon |-> ProviderStats,
   api_calls |-> 0, cache_hits |-> 0, failures |-> 0,
   aws_success |-> 0, census_success |-> 0, photon_success |-> 0,
   nominatim_success |-> 0, zip_fallback_success |-> 0]

NoGeocode ==
  [pc |-> "idle", address |-> << >>, query |-> << >>, phase |-> "full", retry_count |-> 0,
   result |-> None, calls |-> << >>, waits |-> 0, entry |-> NoStats, count |-> 0,
   queries |-> << >>, attempts |-> 0, sleeps |-> << >>]

GeoIdle ==
  /\ aws_client = FALSE
  /\ stats = NoStats
  /\ geo = NoGeocode

\* a job's orchestrator, with or without AWS, over the cache file of earlier runs
GeoInit ==
  /\ aws_client \in BOOLEAN
  /\ stats = NoStats
  /\ geo = NoGeocode
  /\ SetGetInit

\* the position at which provider p is tried: the limiter comes first for Nominatim
Enter(p) == IF p = "nominatim" THEN "wait" ELSE p

StoreUnderQuery(addr, result) ==
  LET new == CacheSet(caches[1].cache, geo.query, result)
  IN  /\ caches' = [caches EXCEPT ![1].cache = new]
      /\ inodes' = <<Encode(new)>>
      /\ paths' = [cache |-> 1, tmp |-> 0]
      /\ images' = images \cup {Encode(new)}

\* cache.set(address, result) with its save, no other writer being at work
Store(addr, result) ==
  LET new == CacheSet(caches[1].cache, addr, result)
  IN  /\ caches' = [caches EXCEPT ![1].cache = new]
      /\ inodes' = <<Encode(new)>>
      /\ paths' = [cache |-> 1, tmp |-> 0]
      /\ images' = images \cup {Encode(new)}

\* geocode(address) up to the first provider: the cache lookup
GeocodeCall(addr) ==
  /\ geo.pc \in {"idle", "returned"}
  /\ geo.count < MaxGeocodes
  /\ caches[1].pc = "idle"
  /\ LET cached == CacheGet(caches[1].cache, addr)
         g == [NoGeocode EXCEPT !.address = addr, !.query = addr, !.entry = stats,
                                !.count = geo.count + 1]
     IN  IF cached # None
           THEN /\ stats' = [stats EXCEPT !.cache_hits = @ + 1]
                /\ geo' = [g EXCEPT !.pc = "returned", !.result = cached]
           ELSE /\ stats' = stats
                /\ geo' = [g EXCEPT !.pc = Enter(Chain[1])]
  /\ UNCHANGED <<aws_client, cacheVars>>

Untagged(result, addr) == result

\* result['fallback'] = 'zip_code'; result['original_address'] = address
Tagged(result, addr) == [result EXCEPT !.fallback = "zip_code", !.original_address = addr]

\* a provider found the query: in the first pass its success is counted and
\* the result stored and returned; in the ZIP pass the result is tagged first
Succeeded(p, result) ==
  LET sourced == IF p = "nominatim" THEN [result EXCEPT !.source = "nominatim"] ELSE result
  IN  IF geo.phase = "full"
        THEN /\ stats' = [stats EXCEPT ![IF p = "aws" THEN "aws_success"
                                         ELSE IF p = "census" THEN "census_success"
                                         ELSE IF p = "photon" THEN "photon_success"
                                         ELSE "nominatim_success"] = @ + 1,
                                        ![IF p = "nominatim" THEN "api_calls" ELSE p] =
                                           IF p = "nominatim" THEN @ + 1
                                           ELSE [@ EXCEPT !.api_calls = @ + 1]]
             /\ geo' = [geo EXCEPT !.pc = "returned", !.result = sourced, !.calls = Append(@, p),
                                   !.queries = Append(@, geo.query),
                                   !.attempts = IF p = "nominatim" THEN @ + 1 ELSE @]
             /\ Store(geo.address, sourced)
        ELSE /\ stats' = [stats EXCEPT !.zip_fallback_success = @ + 1,
                                        ![IF p = "nominatim" THEN "api_calls" ELSE p] =
                                           IF p = "nominatim" THEN @ + 1
                                           ELSE [@ EXCEPT !.api_calls = @ + 1]]
             /\ geo' = [geo EXCEPT !.pc = "returned", !.calls = Append(@, p),
                                   !.queries = Append(@, geo.query),
                                   !.attempts = IF p = "nominatim" THEN @ + 1 ELSE @,
                                   !.result = Tagged(sourced, geo.address)]
             /\ Store(geo.address, Tagged(sourced, geo.address))

\* a provider other than the last returned None: its failure is counted and
\* the next one is tried
Failed(p) ==
  /\ stats' = [stats EXCEPT ![p] = [api_calls |-> @.api_calls + 1, failures |-> @.failures + 1]]
  /\ geo' = [geo EXCEPT !.pc = Enter(Chain[IndexIn(Chain, p) + 1]), !.calls = Append(@, p),
                        !.queries = Append(@, geo.query)]
  /\ UNCHANGED cacheVars

\* aws_geocoder.geocode, census_geocoder.geocode, photon_geocoder.geocode
CallProvider(p, found) ==
  /\ geo.pc = p
  /\ IF found THEN Succeeded(p, Answer(p, geo.query, geo.address)) ELSE Failed(p)
  /\ UNCHANGED aws_client

\* rate_limiter.wait() before the call of Nominatim; _call_nominatim is
\* entered with retry_count = 0
LimiterWait ==
  /\ geo.pc = "wait"
  /\ geo' = [geo EXCEPT !.pc = "nominatim", !.waits = @ + 1, !.attempts = 0, !.sleeps = << >>]
  /\ UNCHANGED <<aws_client, stats, cacheVars>>

\* wait_time = (2 ** retry_count) * 2
Backoff(retry_count) == (2 ^ retry_count) * 2

\* one HTTP attempt of _call_nominatim: a result, nothing, or status 429
\* (retried after a backoff while retry_count < 3); when Nominatim has
\* nothing the ZIP pass starts, or geocode() gives up
CallNominatim(response) ==
  /\ geo.pc = "nominatim"
  /\ CASE response = "found" ->
            Succeeded("nominatim", Answer("nominatim", geo.query, geo.address))
       [] response = "429" /\ geo.retry_count < 3 ->
            /\ stats' = [stats EXCEPT !.api_calls = @ + 1]
            /\ geo' = [geo EXCEPT !.retry_count = @ + 1, !.calls = Append(@, "nominatim"),
                                  !.queries = Append(@, geo.query),
                                  !.attempts = @ + 1,
                                  !.sleeps = Append(@, Backoff(geo.retry_count))]
            /\ UNCHANGED cacheVars
       [] OTHER ->
            IF geo.phase = "full" /\ HasZip(geo.address)
              THEN /\ stats' = [stats EXCEPT !.api_calls = @ + 1]
                   /\ geo' = [geo EXCEPT !.phase = "zip", !.query = ZipAddress(geo.address),
                                         !.retry_count = 0, !.pc = Enter(Chain[1]),
                                         !.calls = Append(@, "nominatim"),
                                         !.queries = Append(@, geo.query),
                                         !.attempts = @ + 1]
                   /\ UNCHANGED cacheVars
              ELSE /\ stats' = [stats EXCEPT !.api_calls = @ + 1, !.failures = @ + 1]
                   /\ geo' = [geo EXCEPT !.pc = "returned", !.result = None,
                                         !.calls = Append(@, "nominatim"),
                                         !.queries = Append(@, geo.query),
                                         !.attempts = @ + 1]
                   /\ UNCHANGED cacheVars
  /\ UNCHANGED aws_client

GeoNext ==
  /\ \/ \E addr \in {Addr1, Addr2} : GeocodeCall(addr)
     \/ \E found \in BOOLEAN : CallProvider("aws", found)
     \/ \E found \in BOOLEAN : CallProvider("census", found)
     \/ \E found \in BOOLEAN : CallProvider("photon", found)
     \/ LimiterWait
     \/ \E response \in {"found", "none", "500", "429"} : CallNominatim(response)
  /\ UNCHANGED <<schedVars, normVars, limiterVars, dataVars, pipeVars, workVars, xrefVars, uploadVars, lockVars, aliasVars>>

----------------------------------------------------------------------------
(* RateLimiter *)

CallerIds == 1..NumCallers

NoCaller == [pc |-> "idle", now |-> 0, kept |-> << >>, wake |-> 0]

LimiterIdle ==
  /\ clock = 0
  /\ limiter = [max_requests |-> 1, period |-> 1, requests |-> << >>]
  /\ callers = [t \in CallerIds |-> NoCaller]
  /\ admissions = << >>
  /\ waits_begun = 0

\* RateLimiter(max_requests, period), fresh
LimiterInit ==
  /\ clock = 0
  /\ limiter \in [max_requests : 1..MaxLimit, period : 1..MaxPeriod, requests : {<< >>}]
  /\ callers = [t \in CallerIds |-> NoCaller]
  /\ admissions = << >>
  /\ waits_begun = 0

\* [r for r in requests if now - r < period]
RECURSIVE Recent(_, _, _)
Recent(requests, now, period) ==
  IF requests = << >> THEN << >>
  ELSE IF now - Head(requests) < period
    THEN <<Head(requests)>> \o Recent(Tail(requests), now, period)
    ELSE Recent(Tail(requests), now, period)

Tick ==
  /\ clock < MaxClock
  /\ clock' = clock + 1
  /\ UNCHANGED <<limiter, callers, admissions, waits_begun>>

\* now = time.time()
WaitEnter(t) ==
  /\ callers[t].pc = "idle"
  /\ waits_begun < MaxWaits
  /\ waits_begun' = waits_begun + 1
  /\ callers' = [callers EXCEPT ![t] = [NoCaller EXCEPT !.pc = "filter", !.now = clock]]
  /\ UNCHANGED <<clock, limiter, admissions>>

\* the list comprehension over self.requests
Filter(t) ==
  /\ callers[t].pc = "filter"
  /\ callers' = [callers EXCEPT ![t].pc = "assign",
                                ![t].kept = Recent(limiter.requests, callers[t].now, limiter.period)]
  /\ UNCHANGED <<clock, limiter, admissions, waits_begun>>

\* self.requests = the filtered list
Assign(t) ==
  /\ callers[t].pc = "assign"
  /\ limiter' = [limiter EXCEPT !.requests = callers[t].kept]
  /\ callers' = [callers EXCEPT ![t].pc = "check", ![t].kept = << >>]
  /\ UNCHANGED <<clock, admissions, waits_begun>>

\* AtLimit, letting one request more through
OverLimit(requests, max_requests) == Len(requests) > max_requests

\* len(self.requests) >= self.max_requests
AtLimit(requests, max_requests) == Len(requests) >= max_requests

Check(t) ==
  /\ callers[t].pc = "check"
  /\ callers' = [callers EXCEPT ![t].pc =
                   IF AtLimit(limiter.requests, limiter.max_requests) THEN "first" ELSE "append"]
  /\ UNCHANGED <<clock, limiter, admissions, waits_begun>>

\* sleep_time = period - (now - self.requests[0]); on an empty list the
\* subscript raises and wait() is left without an admission
ReadFirst(t) ==
  /\ callers[t].pc = "first"
  /\ IF limiter.requests = << >>
       THEN callers' = [callers EXCEPT ![t] = NoCaller]
       ELSE LET sleep_time == limiter.period - (callers[t].now - limiter.requests[1])
            IN  callers' = [callers EXCEPT ![t].pc = "append",
                                           ![t].wake = IF sleep_time > 0 THEN clock + sleep_time ELSE 0]
  /\ UNCHANGED <<clock, limiter, admissions, waits_begun>>

\* time.sleep is over, if there was one; self.requests.append(time.time())
Admit(t) ==
  /\ callers[t].pc = "append"
  /\ clock >= callers[t].wake
  /\ limiter' = [limiter EXCEPT !.requests = Append(@, clock)]
  /\ admissions' = Append(admissions, clock)
  /\ callers' = [callers EXCEPT ![t] = NoCaller]
  /\ UNCHANGED <<clock, waits_begun>>

WaitStep(t) == WaitEnter(t) \/ Filter(t) \/ Assign(t) \/ Check(t) \/ ReadFirst(t) \/ Admit(t)

\* a single caller
LimiterNext ==
  /\ Tick \/ WaitStep(1)
  /\ UNCHANGED <<schedVars, normVars, cacheVars, geoVars, dataVars, pipeVars, workVars, xrefVars, uploadVars, lockVars, aliasVars>>

\* the workers of one job share the limiter
SharedLimiterNext ==
  /\ Tick \/ \E t \in CallerIds : WaitStep(t)
  /\ UNCHANGED <<schedVars, normVars, cacheVars, geoVars, dataVars, pipeVars, workVars, xrefVars, uploadVars, lockVars, aliasVars>>

----------------------------------------------------------------------------
(* The data directory: VUIDResolver, CrossReferenceEngine and the output   *)
(* steps of the standard and the early vote roster pipelines                *)

\* Files are named map_data_{county}_{year}_{election_type}{_party}_{date}.json
\* with a metadata_ twin; year and election type are the same for every job
\* here, so a name is its county, party suffix and date part.
Cumulative == 0             \* the date part 'cumulative'
Unknown == MaxDate + 1      \* the date part 'unknown' (no election date): sorts after every date
Dates == 1..MaxDate
NoDate == 0                 \* election_date None or absent in a metadata document
Counties == {"hidalgo", "cameron"}
PartySuffixes == {"", "republican"}

FileName(county, party, date) == [county |-> county, party |-> party, date |-> date]

\* coordinates: None, NaN (what pandas makes of None in a float column), or a place
NoneLat == 0
NaN == -1
Places == {1, 2}
NoGeometry == 0             \* "geometry": null

\* Voter ids are strings: a stem, then decimal parts such as '.0'.
DecimalParts == {".0"}
V1 == <<"2141860923">>
V1Float == <<"2141860923", ".0">>
V2 == <<"1055500077">>

\* VUIDResolver.normalize_vuid: strip, then re.sub(r'\.\d*$', '', s); the ids
\* here carry no surrounding blanks
normalize_vuid(raw) ==
  IF Len(raw) > 0 /\ raw[Len(raw)] \in DecimalParts
    THEN SubSeq(raw, 1, Len(raw) - 1)
    ELSE raw

\* str.capitalize() and str.lower() on the party names in use
Capitalize(party) ==
  CASE party = "republican" -> "Republican"
    [] party = "democratic" -> "Democratic"
    [] OTHER -> party

Lower(party) ==
  CASE party = "Republican" -> "republican"
    [] party = "Democratic" -> "democratic"
    [] OTHER -> party

\* d[k] = v on a dict whose order does not matter
Put(d, k, v) == [x \in DOMAIN d \cup {k} |-> IF x = k THEN v ELSE d[x]]

EmptyDict == [x \in {} |-> 0]

\* the names of a set in ascending order of rank
RECURSIVE SortedNames(_, _)
SortedNames(names, rank) ==
  IF names = {} THEN << >>
  ELSE LET first == CHOOSE n \in names : \A m \in names : rank[n] <= rank[m]
       IN  <<first>> \o SortedNames(names \ {first}, rank)

PartyRank(party) == IF party = "" THEN 0 ELSE 1

\* build_lookup sorts the paths, then sorts again by date part only (stable)
LookupRank(names) == [n \in names |-> 2 * n.date + PartyRank(n.party)]

\* sorted(glob(...)) of one county, year and election type: a date part starts
\* with a digit or with 'u', a party suffix with 'r'
PathRank(names) == [n \in names |-> (Unknown + 1) * PartyRank(n.party) + n.date]

\* the entries build_lookup takes from one file, later features overwriting earlier
RECURSIVE LookupOfFeatures(_, _, _)
LookupOfFeatures(lookup, features, i) ==
  IF i > Len(features) THEN lookup
  ELSE LET props == features[i]
           key == normalize_vuid(props.vuid)
           entry == [lat |-> props.geometry,
                     party_affiliation_current |-> props.party_affiliation_current]
       IN  LookupOfFeatures(IF props.vuid = << >> \/ key = << >> THEN lookup
                            ELSE Put(lookup, key, entry), features, i + 1)

RECURSIVE LookupOfFiles(_, _, _, _)
LookupOfFiles(lookup, dir, files, i) ==
  IF i > Len(files) THEN lookup
  ELSE LookupOfFiles(LookupOfFeatures(lookup, dir[files[i]].features, 1), dir, files, i + 1)

\* VUIDResolver.build_lookup: every map_data file of the county but the
\* cumulative ones, by date part ascending, later files overwriting earlier
build_lookup(dir, county) ==
  LET county_files == {n \in DOMAIN dir : n.date # Cumulative /\ n.county = county}
  IN  LookupOfFiles(EmptyDict, dir, SortedNames(county_files, LookupRank(county_files)), 1)

\* VUIDResolver.resolve: the entry, or None
Resolves(lookup, vuid) == normalize_vuid(vuid) \in DOMAIN lookup

resolve(lookup, vuid) == lookup[normalize_vuid(vuid)]

\* one record of process_early_vote_roster: the roster row resolved against the lookup
RosterRecord(lookup, raw_vuid, primary_party) ==
  LET normalized_vuid == normalize_vuid(raw_vuid)
  IN  IF Resolves(lookup, normalized_vuid)
        THEN LET match == resolve(lookup, normalized_vuid)
                 existing_party == match.party_affiliation_current
                 other_party == /\ primary_party # ""
                                /\ existing_party # ""
                                /\ Lower(existing_party) # Lower(primary_party)
             IN  [vuid |-> normalized_vuid, lat |-> match.lat, unmatched |-> FALSE,
                  party_affiliation_current |->
                    IF primary_party # "" THEN Capitalize(primary_party) ELSE existing_party,
                  party_affiliation_previous |-> IF other_party THEN existing_party ELSE "",
                  has_switched_parties |-> other_party]
        ELSE [vuid |-> normalized_vuid, lat |-> NoneLat, unmatched |-> TRUE,
              party_affiliation_current |-> Capitalize(primary_party),
              party_affiliation_previous |-> "",
              has_switched_parties |-> FALSE]

\* pd.DataFrame(results): a None in a column that also holds a float becomes NaN
DataFrameLat(records, i) ==
  IF records[i].lat = NoneLat /\ \E j \in 1..Len(records) : records[j].lat # NoneLat
    THEN NaN
    ELSE records[i].lat

\* the feature generate_early_vote_outputs builds from row i
RosterFeature(records, i) ==
  LET row == records[i]
      lat == DataFrameLat(records, i)
  IN  [vuid |-> row.vuid,
       geometry |-> IF row.unmatched \/ lat = NoneLat THEN NoGeometry ELSE lat,
       unmatched |-> row.unmatched,
       party_affiliation_current |-> row.party_affiliation_current,
       party_affiliation_previous |-> row.party_affiliation_previous,
       has_switched_parties |-> row.has_switched_parties]

CountUnmatched(features) == Cardinality({i \in 1..Len(features) : features[i].unmatched})

CountMatched(features) == Cardinality({i \in 1..Len(features) : ~features[i].unmatched})

\* open(path, 'w') and json.dump of the map_data file and of its metadata twin
WriteFile(dir, name, content) ==
  [n \in DOMAIN dir \cup {name} |-> IF n = name THEN content ELSE dir[n]]

\* all_features[normalize_vuid(vuid)] = feature, over the features of one snapshot
RECURSIVE MergeFeatures(_, _, _)
MergeFeatures(all_features, features, i) ==
  IF i > Len(features) THEN all_features
  ELSE LET vuid == features[i].vuid
       IN  MergeFeatures(IF vuid = << >> THEN all_features
                         ELSE DictPut(all_features, normalize_vuid(vuid), features[i]),
                         features, i + 1)

RECURSIVE MergeSnapshots(_, _, _, _)
MergeSnapshots(all_features, dir, files, i) ==
  IF i > Len(files) THEN all_features
  ELSE MergeSnapshots(MergeFeatures(all_features, dir[files[i]].features, 1), dir, files, i + 1)

\* the files glob(map_data_{county}_{year}_{election_type}{party_suffix}_*.json)
\* finds: with no party suffix the '*' also takes in the party of a name
SnapshotFiles(dir, county, party) ==
  {n \in DOMAIN dir : /\ n.county = county
                      /\ n.date # Cumulative
                      /\ party = "" \/ n.party = party}

\* order in which _generate_cumulative reads the snapshots
SnapshotOrderReversed(files) == [n \in files |-> 0 - PathRank(files)[n]]
SnapshotOrder(files) == PathRank(files)

\* ProcessingJob._generate_cumulative: the directory with the cumulative pair rewritten
GenerateCumulative(dir, county, party) ==
  LET snapshot_files == SnapshotFiles(dir, county, party)
      all_features == MergeSnapshots(<< >>, dir,
                        SortedNames(snapshot_files, SnapshotOrder(snapshot_files)), 1)
      features_list == [i \in 1..Len(all_features) |-> all_features[i].val]
      cum_meta == [county |-> county, election_date |-> NoDate, is_early_voting |-> TRUE,
                   matched_vuids |-> CountMatched(features_list),
                   unmatched_vuids |-> CountUnmatched(features_list)]
  IN  IF snapshot_files = {} THEN dir
      ELSE WriteFile(dir, FileName(county, party, Cumulative),
                     [features |-> features_list, meta |-> cum_meta])

\* shutil.copy2 of the named files into the public directory
Deploy(public, dir, names) ==
  [n \in DOMAIN public \cup (names \cap DOMAIN dir) |->
     IF n \in names /\ n \in DOMAIN dir THEN dir[n] ELSE public[n]]

\* process_early_vote_roster on a roster of voter ids, with
\* generate_early_vote_outputs, _generate_cumulative and _deploy_early_vote_outputs
RosterJob(county, primary_party, roster_date, rows) ==
  LET lookup == build_lookup(data_dir, county)
      results == [i \in 1..Len(rows) |-> RosterRecord(lookup, rows[i], primary_party)]
      features == [i \in 1..Len(results) |-> RosterFeature(results, i)]
      snapshot == FileName(county, primary_party, roster_date)
      metadata == [county |-> county, election_date |-> roster_date, is_early_voting |-> TRUE,
                   matched_vuids |-> CountMatched(results),
                   unmatched_vuids |-> CountUnmatched(results)]
      with_snapshot == WriteFile(data_dir, snapshot, [features |-> features, meta |-> metadata])
      with_cumulative == GenerateCumulative(with_snapshot, county, primary_party)
  IN  /\ last_job.count < MaxDataJobs
      /\ data_dir' = with_cumulative
      /\ public_dir' = Deploy(public_dir, with_cumulative,
                              {snapshot, FileName(county, primary_party, Cumulative)})
      /\ last_job' = [kind |-> "roster", county |-> county, party |-> primary_party,
                      date |-> roster_date, status |-> "completed", emitted |-> features,
                      count |-> last_job.count + 1, rewritten |-> {}, copied |-> {}]

\* the fixed-name pair map_data.json / metadata.json; no glob of the pipeline matches it
Latest == FileName("latest", "", Unknown)

\* str(...).strip().upper() on the values of the PARTY column in use
UpperParty(party) ==
  CASE party = "Democratic Party" -> "DEMOCRATIC PARTY"
    [] party = "dem" -> "DEM"
    [] OTHER -> party

\* ProcessingJob._extract_current_party on a row that has a PARTY column
CurrentParty(row) ==
  LET party_code == UpperParty(row.party)
  IN  CASE party_code \in {"D", "DEM", "DEMOCRAT", "DEMOCRATIC"} -> "Democratic"
        [] party_code \in {"R", "REP", "REPUBLICAN"} -> "Republican"
        [] OTHER -> party_code

\* CrossReferenceEngine._extract_current_party_from_row: the rows handed to
\* generate_outputs have no party_affiliation_current column, the party
\* column decides (the ballot style of the rows here names no party)
CurrentPartyFromRow(row) ==
  LET code == UpperParty(row.party)
  IN  CASE code \in {"D", "DEM", "DEMOCRAT", "DEMOCRATIC"} -> "Democratic"
        [] code \in {"R", "REP", "REPUBLICAN"} -> "Republican"
        [] OTHER -> code

\* ProcessingJob._extract_current_party for a job with the form's primary
\* party: the PARTY column first, then primary_party; the rows carry no
\* party_affiliation column, their ballot style names no party and the
\* election type of a primary is 'primary' once upload_csv has split it
extract_current_party(row, primary_party) ==
  IF row.party # "" THEN CurrentParty(row)
  ELSE IF Lower(primary_party) = "democratic" THEN "Democratic"
  ELSE IF Lower(primary_party) = "republican" THEN "Republican"
  ELSE ""

\* ProcessingJob._extract_party_history: geocode_addresses copies no
\* party_history column into its records, so the history starts empty
PartyHistory(row) ==
  IF CurrentParty(row) # "" THEN <<CurrentParty(row)>> ELSE << >>

\* ProcessingJob._detect_party_switching
DetectPartySwitching(party_history) ==
  /\ Len(party_history) >= 2
  /\ \E i \in 1..Len(party_history) : Lower(party_history[i]) = "republican"
  /\ \E i \in 1..Len(party_history) : Lower(party_history[i]) = "democratic"

\* the date test of find_earlier_datasets, with <= in place of <
EarlierOrSame(election_date, current_election_date) == election_date <= current_election_date
\* find_earlier_datasets skips a dataset when election_date >= current_election_date
Earlier(election_date, current_election_date) == election_date < current_election_date

\* str.lower() on the county names in use
LowerCounty(county) ==
  CASE county \in {"Hidalgo", "HIDALGO"} -> "hidalgo"
    [] county = "Cameron" -> "cameron"
    [] OTHER -> county

SameCountyExact(county, own) == county = own

\* county.lower() != self.county.lower() skips the document
SameCounty(county, own) == LowerCounty(county) = LowerCounty(own)

\* CrossReferenceEngine.find_earlier_datasets, as a set of names
find_earlier_datasets(dir, county, current_election_date) ==
  {n \in DOMAIN dir \ {Latest} :
     /\ dir[n].meta.county # ""
     /\ dir[n].meta.election_date # NoDate
     /\ SameCounty(dir[n].meta.county, county)
     /\ current_election_date # NoDate
     /\ Earlier(dir[n].meta.election_date, current_election_date)}

\* the candidates for earlier_datasets[0]: the sort by election_date is stable
\* and glob yields the files in no particular order
MostRecent(dir, earlier) ==
  {n \in earlier : \A m \in earlier : dir[m].meta.election_date <= dir[n].meta.election_date}

\* load_voter_lookup reads geometry.get('coordinates') of every feature:
\* a feature whose geometry is null raises AttributeError
LookupRaises(features) == \E i \in 1..Len(features) : features[i].geometry = NoGeometry

RECURSIVE VoterLookup(_, _, _)
VoterLookup(vuid_lookup, features, i) ==
  IF i > Len(features) THEN vuid_lookup
  ELSE VoterLookup(IF features[i].vuid = << >> THEN vuid_lookup
                   ELSE Put(vuid_lookup, features[i].vuid, features[i].party_affiliation_current),
                   features, i + 1)

\* CrossReferenceEngine.load_voter_lookup: its 'vuid_lookup', vuid -> party
load_voter_lookup(features) == VoterLookup(EmptyDict, features, 1)

\* str(...).strip().upper() on the names in use
UpperName(name) ==
  CASE name \in {"Garza", "garza"} -> "GARZA"
    [] name \in {"Ana", "ana"} -> "ANA"
    [] OTHER -> name

\* round(x, 4) of a coordinate counted in units of 0.00001 degree (the
\* coordinates in use end in no 5)
Round4(x) == ((x + 5) \div 10) * 10

\* (lastname, firstname, round(lat, 4), round(lng, 4))
NameCoordKey(lastname, firstname, lat, lng) ==
  <<UpperName(lastname), UpperName(firstname), Round4(lat), Round4(lng)>>

RECURSIVE NameCoordLookup(_, _, _)
NameCoordLookup(name_coord_lookup, features, i) ==
  IF i > Len(features) THEN name_coord_lookup
  ELSE NameCoordLookup(IF features[i].lastname = "" \/ features[i].firstname = ""
                         THEN name_coord_lookup
                         ELSE Put(name_coord_lookup,
                                  NameCoordKey(features[i].lastname, features[i].firstname,
                                               features[i].geometry, features[i].lng),
                                  features[i].party_affiliation_current),
                       features, i + 1)

\* CrossReferenceEngine.load_voter_lookup: its 'name_coord_lookup'
load_name_coord_lookup(features) == NameCoordLookup(EmptyDict, features, 1)

\* the match of get_previous_party with the name and coordinate key tried first
EarlierPartyNameFirst(row, vuid_lookup, name_coord_lookup) ==
  LET key == NameCoordKey(row.lastname, row.firstname, row.lat, row.lng)
  IN  IF row.lastname # "" /\ row.firstname # "" /\ key \in DOMAIN name_coord_lookup
        THEN name_coord_lookup[key]
      ELSE IF row.vuid # << >> /\ row.vuid \in DOMAIN vuid_lookup
        THEN vuid_lookup[row.vuid]
      ELSE ""

\* get_previous_party up to its comparison: the VUID match, else the name
\* and coordinate match, else ''
EarlierParty(row, vuid_lookup, name_coord_lookup) ==
  LET key == NameCoordKey(row.lastname, row.firstname, row.lat, row.lng)
  IN  IF row.vuid # << >> /\ row.vuid \in DOMAIN vuid_lookup
        THEN vuid_lookup[row.vuid]
      ELSE IF row.lastname # "" /\ row.firstname # "" /\ key \in DOMAIN name_coord_lookup
        THEN name_coord_lookup[key]
      ELSE ""

\* CrossReferenceEngine.get_previous_party
get_previous_party(row, vuid_lookup, name_coord_lookup) ==
  LET current_party == CurrentPartyFromRow(row)
      earlier_party == EarlierParty(row, vuid_lookup, name_coord_lookup)
  IN  IF earlier_party # "" /\ earlier_party # current_party THEN earlier_party ELSE ""

\* the feature generate_outputs builds from a geocoded row
StandardFeature(row, previous_party) ==
  [vuid |-> row.vuid,
   geometry |-> row.lat,
   unmatched |-> FALSE,
   party_affiliation_current |-> CurrentParty(row),
   party_affiliation_previous |-> previous_party,
   has_switched_parties |-> DetectPartySwitching(PartyHistory(row))]

\* re_resolve_unmatched on one feature
ReResolvable(lookup, props) ==
  /\ props.unmatched
  /\ props.vuid # << >>
  /\ Resolves(lookup, props.vuid)
  /\ resolve(lookup, props.vuid).lat # NoneLat

ReResolved(lookup, props) ==
  IF ReResolvable(lookup, props)
    THEN [props EXCEPT !.geometry = resolve(lookup, props.vuid).lat, !.unmatched = FALSE]
    ELSE props

\* every file of the county re_resolve_unmatched reads
UpdatedAll(dir, county, lookup) == {n \in DOMAIN dir : n.county = county}

\* the files re_resolve_unmatched rewrites: those of the county with a feature to update
Updated(dir, county, lookup) ==
  {n \in DOMAIN dir : /\ n.county = county
                      /\ \E i \in 1..Len(dir[n].features) : ReResolvable(lookup, dir[n].features[i])}

\* ProcessingJob.re_resolve_unmatched: the data directory afterwards
re_resolve_unmatched(dir, county) ==
  LET lookup == build_lookup(dir, county)
  IN  [n \in DOMAIN dir |->
         IF n \in Updated(dir, county, lookup)
           THEN LET features == [i \in 1..Len(dir[n].features) |->
                                   ReResolved(lookup, dir[n].features[i])]
                IN  [features |-> features,
                     meta |-> [dir[n].meta EXCEPT !.matched_vuids = CountMatched(features),
                                                  !.unmatched_vuids = CountUnmatched(features)]]
           ELSE dir[n]]

NoJob == [kind |-> "none", county |-> "", party |-> "", date |-> NoDate, status |-> "none",
          emitted |-> << >>, count |-> 0, rewritten |-> {}, copied |-> {}]

\* generate_outputs raises out of cross_reference: run() sets 'failed', nothing is written
StandardJobFails(county, date) ==
  /\ UNCHANGED <<data_dir, public_dir>>
  /\ last_job' = [kind |-> "standard", county |-> county, party |-> "", date |-> date,
                  status |-> "failed", emitted |-> << >>, count |-> last_job.count + 1,
                  rewritten |-> {}, copied |-> {}]

\* generate_outputs (with re_resolve_unmatched) and deploy_outputs on the geocoded rows
StandardJobCompletes(county, date, rows, vuid_lookup) ==
  LET features == [i \in 1..Len(rows) |->
                     \* the features of this directory carry no names: the
                     \* name and coordinate lookup is empty
                     StandardFeature(rows[i], get_previous_party(rows[i], vuid_lookup, EmptyDict))]
      metadata == [county |-> county,
                   election_date |-> IF date = Unknown THEN NoDate ELSE date,
                   is_early_voting |-> FALSE, matched_vuids |-> 0, unmatched_vuids |-> 0]
      content == [features |-> features, meta |-> metadata]
      map_data == FileName(county, "", date)
      written == WriteFile(WriteFile(data_dir, map_data, content), Latest, content)
      resolved == re_resolve_unmatched(written, county)
  IN  /\ data_dir' = resolved
      /\ public_dir' = Deploy(public_dir, resolved,
                              Updated(written, county, build_lookup(written, county))
                                \cup {map_data, Latest})
      /\ last_job' = [kind |-> "standard", county |-> county, party |-> "", date |-> date,
                      status |-> "completed", emitted |-> features, count |-> last_job.count + 1,
                      \* the files re_resolve_unmatched wrote, and those it copied
                      rewritten |-> Updated(written, county, build_lookup(written, county)),
                      copied |-> Updated(written, county, build_lookup(written, county))]

\* the output and deploy steps of run() for a standard voter file whose rows
\* were all geocoded; the job has no primary party
StandardJob(county, date, rows) ==
  LET current_election_date == IF date = Unknown THEN NoDate ELSE date
      earlier_datasets == find_earlier_datasets(data_dir, county, current_election_date)
  IN  /\ last_job.count < MaxDataJobs
      /\ IF earlier_datasets = {}
           THEN StandardJobCompletes(county, date, rows, EmptyDict)
           ELSE \E most_recent \in MostRecent(data_dir, earlier_datasets) :
                  IF LookupRaises(data_dir[most_recent].features)
                    THEN StandardJobFails(county, date)
                    ELSE StandardJobCompletes(county, date, rows,
                                              load_voter_lookup(data_dir[most_recent].features))

\* rosters and geocoded voter files uploaded
Rosters == {<<V1>>, <<V2>>, <<V1Float, V2>>}

Voter(vuid, party, lat) ==
  [vuid |-> vuid, party |-> party, lat |-> lat, lng |-> -98, lastname |-> "", firstname |-> ""]

VoterFiles ==
  {<<Voter(V1, "D", 1)>>, <<Voter(V1, "R", 1)>>, <<Voter(V1Float, "D", 2), Voter(V2, "R", 1)>>}

DataIdle ==
  /\ data_dir = EmptyDict
  /\ public_dir = EmptyDict
  /\ last_job = NoJob

DataInit == DataIdle

DataNext ==
  /\ \/ \E party \in PartySuffixes, date \in Dates, rows \in Rosters :
          RosterJob("hidalgo", party, date, rows)
     \/ \E date \in Dates \cup {Unknown}, rows \in VoterFiles : StandardJob("hidalgo", date, rows)
     \/ \E date \in Dates : StandardJob("cameron", date, <<Voter(V1, "R", 1)>>)
  /\ UNCHANGED <<schedVars, normVars, cacheVars, geoVars, limiterVars, pipeVars, workVars, xrefVars, uploadVars, lockVars, aliasVars>>

----------------------------------------------------------------------------
(* ProcessingJob.run(), step by step, over the cache, the data directory   *)
(* and the public directory                                                *)

\* the uploads: row i of a file is about voter i and lives at address i; a
\* row is TRUE when its ADDRESS cell (voter file) or VUID cell (roster) is
\* filled and FALSE when the cell is blank
Uploads == UNION {[1..n -> BOOLEAN] : n \in 0..MaxRows}

\* the header rows of the uploads
ColumnSets ==
  { {"ADDRESS", "PRECINCT", "BALLOT STYLE", "VUID"},
    {"ADDRESS", "PRECINCT", "BALLOT STYLE"},
    {"ADDRESS", "PRECINCT", "VUID"},
    {"Address", "PRECINCT", "BALLOT STYLE", "VUID"},
    {"PRECINCT", "BALLOT STYLE"},
    {"VUID", "PRECINCT"},
    {"ID"} }

COLUMN_ALIASES_vuid == {"VUID", "Vuid", "VOTER_ID", "VoterID", "ID"}

ADDRESS_ALIASES ==
  {"ADDRESS", "Address", "address", "STREET", "Street", "street",
   "FULL_ADDRESS", "full_address", "FullAddress", "ADDR", "addr",
   "RESIDENTIAL_ADDRESS", "residential_address", "RES_ADDRESS"}

has_vuid_column(columns) == columns \cap COLUMN_ALIASES_vuid # {}

has_address_column(columns) == columns \cap ADDRESS_ALIASES # {}

\* the test with its negation lost
detect_vuid_with_address(columns) == has_vuid_column(columns) /\ has_address_column(columns)

detect_early_vote_roster(columns) == has_vuid_column(columns) /\ ~has_address_column(columns)

required_columns_short == {"ADDRESS", "PRECINCT"}
required_columns == {"ADDRESS", "PRECINCT", "BALLOT STYLE"}

\* validate_csv(...).is_valid(): a roster is valid as it is; a voter file
\* needs the required columns and an address in every row
validate_csv(columns, rows) ==
  IF detect_early_vote_roster(columns) THEN TRUE
  ELSE IF required_columns \ columns # {} THEN FALSE
  ELSE \A i \in 1..Len(rows) : rows[i]

\* progress is a fraction; the model keeps it in units of 1/600, in which
\* every value the code computes for up to six records is a whole number
Tenth == 60
One == 10 * Tenth

GeocodeShareWide == 10 * Tenth
GeocodeShare == 5 * Tenth

RosterShare == 6 * Tenth

\* 0.2 + (0.5 * (processed_records / total_records))
GeocodeProgress(processed, total) == 2 * Tenth + (GeocodeShare * processed) \div total

\* 0.2 + (0.6 * (processed_records / total_records))
RosterProgress(processed, total) == 2 * Tenth + (RosterShare * processed) \div total

Least(S) == CHOOSE i \in S : \A k \in S : i <= k

Members(seq) == {seq[i] : i \in 1..Len(seq)}

\* the first count entries of a list of files, as a set
Prefix(files, count) == {files[i] : i \in 1..count}

\* no ProcessingJob exists yet
Unconstructed ==
  [id |-> 0, columns |-> {}, rows |-> << >>, status |-> "none", progress |-> 0,
   total_records |-> 0, processed_records |-> 0, errors |-> << >>, results |-> << >>,
   unmatched |-> {}, pending |-> {}, misses |-> {}, api_calls |-> 0, cache_writes |-> 0,
   written |-> {}, copied |-> {}, deployed |-> 0, fault |-> FALSE, pc |-> "done"]

\* nothing on disk
EmptyDisk ==
  [cache |-> {}, data |-> {}, public |-> {}, public_exists |-> FALSE,
   located |-> {}, snapshot |-> {}, unmatched |-> {}]

\* ProcessingJob.__init__ for an upload; the disk as the job finds it is remembered
Construct(columns, rows) ==
  /\ current_job.pc = "done"
  /\ constructed < MaxPipeJobs
  /\ constructed' = constructed + 1
  /\ current_job' = [Unconstructed EXCEPT
       !.id = constructed + 1, !.columns = columns, !.rows = rows,
       !.status = "queued", !.pc = "run"]
  /\ disk_before' = disk
  /\ UNCHANGED disk

\* run() up to the end of step 2: validation, the row count, the choice of
\* the roster path, address cleaning
Validate ==
  /\ current_job.pc = "run"
  /\ current_job' =
       IF ~validate_csv(current_job.columns, current_job.rows)
         THEN [current_job EXCEPT !.status = "failed", !.pc = "done"]
       ELSE IF detect_early_vote_roster(current_job.columns)
         THEN [current_job EXCEPT !.status = "running",
                 !.total_records = Len(current_job.rows), !.pc = "roster"]
       ELSE [current_job EXCEPT !.status = "running",
               !.total_records = Len(current_job.rows),
               !.progress = 2 * Tenth, !.pc = "cached"]
  /\ UNCHANGED <<disk, disk_before, constructed>>

\* the rows of the job whose cleaned address is in the cache
CachedRows == {i \in 1..Len(current_job.rows) : i \in disk.cache}

\* geocode_addresses, phase 1: the next cached row becomes a result; after
\* the last one the uncached rows are submitted to the workers
GeocodeCached ==
  /\ current_job.pc = "cached"
  /\ LET todo == CachedRows \ Members(current_job.results)
     IN  current_job' =
           IF todo # {}
             THEN [current_job EXCEPT
                     !.results = Append(@, Least(todo)),
                     !.processed_records = @ + 1,
                     !.progress = GeocodeProgress(current_job.processed_records + 1,
                                                  current_job.total_records)]
           ELSE [current_job EXCEPT
                   !.pending = (1..Len(current_job.rows)) \ CachedRows,
                   !.pc = "uncached"]
  /\ UNCHANGED <<disk, disk_before, constructed>>

GeocodeResults == {"found", "miss", "raise"}

\* geocode_addresses, phase 2: one submitted row completes, in any order.
\* The geocoder finds the address (and caches it), returns None, or raises.
GeocodeRecord(i, result) ==
  /\ current_job.pc = "uncached"
  /\ i \in current_job.pending
  /\ \/ /\ result = "found"
        /\ current_job' = [current_job EXCEPT
             !.pending = @ \ {i},
             !.results = Append(@, i),
             !.api_calls = @ + 1,
             !.cache_writes = @ + 1,
             !.processed_records = @ + 1,
             !.progress = GeocodeProgress(current_job.processed_records + 1,
                                          current_job.total_records)]
        /\ disk' = [disk EXCEPT !.cache = @ \cup {i}]
     \/ /\ result = "miss"
        /\ current_job' = [current_job EXCEPT
             !.pending = @ \ {i},
             !.errors = Append(@, i),
             !.misses = @ \cup {i},
             !.api_calls = @ + 1,
             !.processed_records = @ + 1,
             !.progress = GeocodeProgress(current_job.processed_records + 1,
                                          current_job.total_records)]
        /\ UNCHANGED disk
     \/ /\ result = "raise"
        /\ current_job' = [current_job EXCEPT
             !.pending = @ \ {i},
             !.api_calls = @ + 1,
             !.processed_records = @ + 1,
             !.fault = TRUE]
        /\ UNCHANGED disk
  /\ UNCHANGED <<disk_before, constructed>>

\* the end of geocode_addresses and of step 3: the summary divides by
\* total_records
FinishGeocode ==
  /\ current_job.pc = "uncached"
  /\ current_job.pending = {}
  /\ current_job' =
       IF current_job.total_records = 0
         THEN [current_job EXCEPT !.status = "failed", !.pc = "done"]
         ELSE [current_job EXCEPT !.progress = 7 * Tenth, !.pc = "outputs"]
  /\ UNCHANGED <<disk, disk_before, constructed>>

\* the files generate_outputs writes, in order
OutputFiles(errors) ==
  <<"map_data", "map_data.json", "metadata", "metadata.json">>
    \o (IF errors # << >> THEN <<"processing_errors.csv">> ELSE << >>)

SnapshotOutputs == <<"snapshot", "snapshot_meta", "cumulative", "cumulative_meta">>

\* re_resolve_unmatched after a voter file dated after the roster snapshot:
\* the roster's unmatched voters the new file locates are resolved, and the
\* rewritten snapshot and cumulative files are copied to the public
\* directory when it exists
ReResolve(job, d) ==
  LET updated == d.unmatched \cap d.located
  IN  IF updated = {} THEN <<job, d>>
      ELSE << [job EXCEPT
                 !.written = @ \cup Members(SnapshotOutputs),
                 !.copied = @ \cup (IF d.public_exists THEN Members(SnapshotOutputs) ELSE {})],
              [d EXCEPT
                 !.unmatched = @ \ updated,
                 !.public = @ \cup (IF d.public_exists THEN Members(SnapshotOutputs) ELSE {})] >>

\* generate_outputs and the end of step 4. Grouping an empty frame by
\* ['lat', 'lng'] raises; a write may fail, after count files were written.
GenerateOutputs(count) ==
  /\ current_job.pc = "outputs"
  /\ LET files == OutputFiles(current_job.errors)
         wrote == [current_job EXCEPT !.written = @ \cup Prefix(files, count)]
         stored == [disk EXCEPT
                      !.data = @ \cup Prefix(files, count),
                      !.located = IF count = 0 THEN @
                                  ELSE IF "VUID" \in current_job.columns
                                    THEN Members(current_job.results)
                                  ELSE {}]
         resolved == ReResolve(wrote, stored)
     IN  IF current_job.results = << >>
           THEN /\ count = 0
                /\ current_job' = [current_job EXCEPT !.status = "failed", !.pc = "done"]
                /\ UNCHANGED disk
         ELSE IF count < Len(files)
           THEN /\ current_job' = [wrote EXCEPT
                                     !.status = "failed", !.fault = TRUE, !.pc = "done"]
                /\ disk' = stored
         ELSE /\ count = Len(files)
              /\ current_job' = [resolved[1] EXCEPT !.progress = 9 * Tenth, !.pc = "deploy"]
              /\ disk' = resolved[2]
  /\ UNCHANGED <<disk_before, constructed>>

\* the files deploy_outputs copies, in order
DeployFiles == <<"map_data", "metadata", "map_data.json", "metadata.json">>

\* one shutil.copy2 of a deploy loop: it copies the next file, or raises.
\* After the last copy the caller sets progress to 1.0.
CopyStep(files, ok) ==
  LET file == files[current_job.deployed + 1]
  IN  /\ current_job' =
           IF ~ok
             THEN [current_job EXCEPT !.status = "failed", !.fault = TRUE, !.pc = "done"]
             ELSE [current_job EXCEPT
                     !.copied = @ \cup {file},
                     !.deployed = @ + 1,
                     !.progress = IF current_job.deployed + 1 = Len(files) THEN One ELSE @,
                     !.pc = IF current_job.deployed + 1 = Len(files) THEN "complete" ELSE @]
      /\ disk' = [disk EXCEPT
                    !.public_exists = TRUE,
                    !.public = IF ok THEN @ \cup {file} ELSE @]

\* deploy_outputs, one copy at a time, and `self.progress = 1.0`
DeployOutputs(ok) ==
  /\ current_job.pc = "deploy"
  /\ CopyStep(DeployFiles, ok)
  /\ UNCHANGED <<disk_before, constructed>>

\* run(): `self.status = 'completed'`, and the same lines of
\* process_early_vote_roster
SetCompleted ==
  /\ current_job.pc = "complete"
  /\ current_job' = [current_job EXCEPT !.status = "completed", !.pc = "done"]
  /\ UNCHANGED <<disk, disk_before, constructed>>

\* process_early_vote_roster up to the resolution loop: rows with a blank
\* VUID are dropped, and an empty roster raises
RosterPrepare ==
  /\ current_job.pc = "roster"
  /\ LET filled == {i \in 1..Len(current_job.rows) : current_job.rows[i]}
     IN  current_job' =
           IF filled = {}
             THEN [current_job EXCEPT !.status = "failed", !.pc = "done"]
             ELSE [current_job EXCEPT
                     !.total_records = Cardinality(filled),
                     !.pending = filled, !.pc = "resolve"]
  /\ UNCHANGED <<disk, disk_before, constructed>>

\* the resolution loop: the next roster row is looked up among the voters of
\* the data directory; a voter found there, located or not, is matched
ResolveRecord ==
  /\ current_job.pc = "resolve"
  /\ current_job.pending # {}
  /\ LET i == Least(current_job.pending)
     IN  current_job' = [current_job EXCEPT
           !.pending = @ \ {i},
           !.results = Append(@, i),
           !.unmatched = IF i \in disk.located \cup disk.snapshot THEN @ ELSE @ \cup {i},
           !.processed_records = @ + 1,
           !.progress = RosterProgress(current_job.processed_records + 1,
                                       current_job.total_records)]
  /\ UNCHANGED <<disk, disk_before, constructed>>

\* generate_early_vote_outputs up to its deploy call: the snapshot, its
\* metadata and the cumulative files; a write may fail after count files
GenerateEarlyVoteOutputs(count) ==
  /\ current_job.pc = "resolve"
  /\ current_job.pending = {}
  /\ current_job' =
       IF count < Len(SnapshotOutputs)
         THEN [current_job EXCEPT
                 !.written = @ \cup Prefix(SnapshotOutputs, count),
                 !.status = "failed", !.fault = TRUE, !.pc = "done"]
         ELSE [current_job EXCEPT
                 !.written = @ \cup Prefix(SnapshotOutputs, count),
                 !.pc = "deploy_roster"]
  /\ disk' = [disk EXCEPT
       !.data = @ \cup Prefix(SnapshotOutputs, count),
       !.snapshot = IF count = 0 THEN @ ELSE Members(current_job.results),
       !.unmatched = IF count = 0 THEN @ ELSE current_job.unmatched]
  /\ UNCHANGED <<disk_before, constructed>>

\* _deploy_early_vote_outputs, one copy at a time, and `self.progress = 1.0`
DeployEarlyVoteOutputs(ok) ==
  /\ current_job.pc = "deploy_roster"
  /\ CopyStep(SnapshotOutputs, ok)
  /\ UNCHANGED <<disk_before, constructed>>

PipeIdle ==
  /\ current_job = Unconstructed
  /\ disk = EmptyDisk
  /\ disk_before = EmptyDisk
  /\ constructed = 0

PipeInit == PipeIdle

PipeNext ==
  /\ \/ \E columns \in ColumnSets, rows \in Uploads : Construct(columns, rows)
     \/ Validate
     \/ GeocodeCached
     \/ \E i \in 1..MaxRows, result \in GeocodeResults : GeocodeRecord(i, result)
     \/ FinishGeocode
     \/ \E count \in 0..5 : GenerateOutputs(count)
     \/ \E ok \in BOOLEAN : DeployOutputs(ok)
     \/ SetCompleted
     \/ RosterPrepare
     \/ ResolveRecord
     \/ \E count \in 0..4 : GenerateEarlyVoteOutputs(count)
     \/ \E ok \in BOOLEAN : DeployEarlyVoteOutputs(ok)
  /\ UNCHANGED <<schedVars, normVars, cacheVars, geoVars, limiterVars, dataVars, workVars, xrefVars, uploadVars, lockVars, aliasVars>>

----------------------------------------------------------------------------
(* ProcessingJob.geocode_addresses: the cached records are counted by the  *)
(* calling thread, the others by pool workers, each += being a read of the *)
(* attribute followed by a write.                                          *)

\* holder of results_lock when the calling thread has it
MainThread == -1

LockFreeAlways(lk) == TRUE

\* 'with results_lock:' is entered when no thread holds the lock
LockFree(lk) == lk = 0

Running == {i \in DOMAIN futures : futures[i].pc \in {"geocoding", "want_lock", "in_lock"}}

WorkIdle ==
  /\ counts = [total_records |-> 0, processed_records |-> 0, geocoded_count |-> 0, failed_count |-> 0]
  /\ futures = << >>
  /\ results_lock = 0
  /\ collector = [pc |-> "end", tmp |-> 0, item |-> 0, max_workers |-> 1]
  /\ applied = [processed_records |-> 0, geocoded_count |-> 0, failed_count |-> 0]

\* run() has set total_records = len(df), clean_addresses has dropped the
\* rows without address, the cache was asked for every remaining row
WorkInit ==
  \E n \in 1..MaxRecords, dropped \in 0..1, cached \in SUBSET (1..MaxRecords), w \in 1..MaxWorkers :
    /\ counts = [total_records |-> n + dropped, processed_records |-> 0,
                 geocoded_count |-> 0, failed_count |-> 0]
    /\ futures = [i \in 1..n |-> [pc |-> IF i \in cached THEN "cached" ELSE "uncached",
                                  status |-> "none", tmp |-> 0]]
    /\ cached \subseteq 1..n
    /\ results_lock = 0
    /\ collector = [pc |-> "phase1", tmp |-> 0, item |-> 0, max_workers |-> w]
    /\ applied = [processed_records |-> 0, geocoded_count |-> 0, failed_count |-> 0]

\* phase 1, a cached record: results.append(record); self.geocoded_count += 1
CachedGeocoded ==
  /\ collector.pc = "phase1"
  /\ \E i \in DOMAIN futures :
       /\ futures[i].pc = "cached"
       /\ \A j \in 1..(i - 1) : futures[j].pc # "cached"
       /\ futures' = [futures EXCEPT ![i].pc = "counted", ![i].status = "success"]
       /\ collector' = [collector EXCEPT !.pc = "phase1_processed", !.item = i]
  /\ counts' = [counts EXCEPT !.geocoded_count = @ + 1]
  /\ applied' = [applied EXCEPT !.geocoded_count = @ + 1]
  /\ UNCHANGED results_lock

\* phase 1, the same record: self.processed_records += 1
CachedProcessed ==
  /\ collector.pc = "phase1_processed"
  /\ futures' = [futures EXCEPT ![collector.item].pc = "collected"]
  /\ counts' = [counts EXCEPT !.processed_records = @ + 1]
  /\ applied' = [applied EXCEPT !.processed_records = @ + 1]
  /\ collector' = [collector EXCEPT !.pc = "phase1"]
  /\ UNCHANGED results_lock

\* 'if uncached_addresses:' and executor.submit for each of them
SubmitAll ==
  /\ collector.pc = "phase1"
  /\ \A i \in DOMAIN futures : futures[i].pc # "cached"
  /\ futures' = [i \in DOMAIN futures |->
                   IF futures[i].pc = "uncached" THEN [futures[i] EXCEPT !.pc = "submitted"]
                   ELSE futures[i]]
  /\ collector' = [collector EXCEPT !.pc = IF \E i \in DOMAIN futures : futures[i].pc = "uncached"
                                            THEN "as_completed" ELSE "end"]
  /\ UNCHANGED <<counts, results_lock, applied>>

\* a pool thread takes the task
WorkerStart(i) ==
  /\ futures[i].pc = "submitted"
  /\ Cardinality(Running) < collector.max_workers
  /\ futures' = [futures EXCEPT ![i].pc = "geocoding"]
  /\ UNCHANGED <<counts, results_lock, collector, applied>>

\* geocode_single_address up to its 'with results_lock:': the geocoder
\* answered, answered None, or the function raised
WorkerGeocode(i, outcome) ==
  /\ futures[i].pc = "geocoding"
  /\ futures' = [futures EXCEPT ![i].status = outcome,
                                ![i].pc = IF outcome = "raised" THEN "finished" ELSE "want_lock"]
  /\ UNCHANGED <<counts, results_lock, collector, applied>>

\* the counter a worker increments
CounterOf(status) == IF status = "success" THEN "geocoded_count" ELSE "failed_count"

\* 'with results_lock:' entered, the attribute read
WorkerAcquire(i) ==
  /\ futures[i].pc = "want_lock"
  /\ LockFree(results_lock)
  /\ results_lock' = i
  /\ futures' = [futures EXCEPT ![i].pc = "in_lock", ![i].tmp = counts[CounterOf(futures[i].status)]]
  /\ UNCHANGED <<counts, collector, applied>>

\* the attribute written, the lock released, the function returns
WorkerStore(i) ==
  /\ futures[i].pc = "in_lock"
  /\ counts' = [counts EXCEPT ![CounterOf(futures[i].status)] = futures[i].tmp + 1]
  /\ applied' = [applied EXCEPT ![CounterOf(futures[i].status)] = @ + 1]
  /\ results_lock' = 0
  /\ futures' = [futures EXCEPT ![i].pc = "finished"]
  /\ UNCHANGED collector

\* as_completed yields a finished future; future.result() returns its pair,
\* which is appended to results or to errors, or raises
Collect(i) ==
  /\ collector.pc = "as_completed"
  /\ futures[i].pc = "finished"
  /\ collector' = [collector EXCEPT !.item = i,
                                    !.pc = IF futures[i].status = "raised" THEN "except" ELSE "want_lock"]
  /\ UNCHANGED <<counts, futures, results_lock, applied>>

\* 'with results_lock:' of the progress update, processed_records read
CollectorAcquire ==
  /\ collector.pc = "want_lock"
  /\ LockFree(results_lock)
  /\ results_lock' = MainThread
  /\ collector' = [collector EXCEPT !.pc = "in_lock", !.tmp = counts.processed_records]
  /\ UNCHANGED <<counts, futures, applied>>

\* processed_records written, the lock released
CollectorStore ==
  /\ collector.pc = "in_lock"
  /\ counts' = [counts EXCEPT !.processed_records = collector.tmp + 1]
  /\ applied' = [applied EXCEPT !.processed_records = @ + 1]
  /\ results_lock' = 0
  /\ futures' = [futures EXCEPT ![collector.item].pc = "collected"]
  /\ collector' = [collector EXCEPT !.pc = "as_completed"]

\* except Exception: 'with results_lock:' entered, failed_count read
ExceptAcquire ==
  /\ collector.pc = "except"
  /\ LockFree(results_lock)
  /\ results_lock' = MainThread
  /\ collector' = [collector EXCEPT !.pc = "except_failed", !.tmp = counts.failed_count]
  /\ UNCHANGED <<counts, futures, applied>>

\* self.failed_count += 1 completed, processed_records read
ExceptFailed ==
  /\ collector.pc = "except_failed"
  /\ counts' = [counts EXCEPT !.failed_count = collector.tmp + 1]
  /\ applied' = [applied EXCEPT !.failed_count = @ + 1]
  /\ collector' = [collector EXCEPT !.pc = "except_processed", !.tmp = counts.processed_records]
  /\ UNCHANGED <<futures, results_lock>>

\* self.processed_records += 1 completed, the lock released
ExceptProcessed ==
  /\ collector.pc = "except_processed"
  /\ counts' = [counts EXCEPT !.processed_records = collector.tmp + 1]
  /\ applied' = [applied EXCEPT !.processed_records = @ + 1]
  /\ results_lock' = 0
  /\ futures' = [futures EXCEPT ![collector.item].pc = "collected"]
  /\ collector' = [collector EXCEPT !.pc = "as_completed"]

\* as_completed is exhausted, the executor shut down
PoolDone ==
  /\ collector.pc = "as_completed"
  /\ \A i \in DOMAIN futures : futures[i].pc = "collected"
  /\ collector' = [collector EXCEPT !.pc = "end"]
  /\ UNCHANGED <<counts, futures, results_lock, applied>>

WorkNext ==
  /\ \/ CachedGeocoded
     \/ CachedProcessed
     \/ SubmitAll
     \/ \E i \in DOMAIN futures : WorkerStart(i)
     \/ \E i \in DOMAIN futures, outcome \in {"success", "error", "raised"} : WorkerGeocode(i, outcome)
     \/ \E i \in DOMAIN futures : WorkerAcquire(i)
     \/ \E i \in DOMAIN futures : WorkerStore(i)
     \/ \E i \in DOMAIN futures : Collect(i)
     \/ CollectorAcquire
     \/ CollectorStore
     \/ ExceptAcquire
     \/ ExceptFailed
     \/ ExceptProcessed
     \/ PoolDone
  /\ UNCHANGED <<schedVars, normVars, cacheVars, geoVars, limiterVars, dataVars, pipeVars, xrefVars, uploadVars, lockVars, aliasVars>>

----------------------------------------------------------------------------
(* CrossReferenceEngine.cross_reference over a data directory of metadata  *)
(* documents, for one row of the data frame                                *)

\* the files of the directory: two elections of one county, a primary of the
\* second, and an election of another county
XrefNames ==
  {FileName("hidalgo", "", 1), FileName("hidalgo", "", 2),
   FileName("hidalgo", "republican", 2), FileName("cameron", "", 1)}

\* the spellings under which the upload form gave the county
Spellings(county) == IF county = "hidalgo" THEN {"Hidalgo", "hidalgo"} ELSE {"Cameron"}

\* a feature as generate_outputs wrote it from a row of an earlier upload
XrefFeature(vuid, lastname, firstname, lat, party) ==
  [vuid |-> vuid, lastname |-> lastname, firstname |-> firstname, geometry |-> lat, lng |-> -98,
   party_affiliation_current |-> CurrentParty([party |-> party])]

FeatureFiles ==
  {<<XrefFeature(V1, "GARZA", "ANA", 12, "R")>>,
   <<XrefFeature(<< >>, "Garza", "Ana", 13, "Democratic Party")>>,
   <<XrefFeature(V1, "LOPEZ", "EVA", 27, "R"), XrefFeature(V2, "GARZA", "ANA", 12, "D")>>}

\* the documents a file of that name may hold: county and election_date as
\* uploaded, or a document without one of them
DocsOf(n) ==
  {[meta |-> [county |-> county, election_date |-> n.date], features |-> features] :
     county \in Spellings(n.county), features \in FeatureFiles}
  \cup {[meta |-> meta, features |-> <<XrefFeature(V1, "GARZA", "ANA", 12, "R")>>] :
          meta \in {[county |-> "", election_date |-> n.date],
                    [county |-> "Hidalgo", election_date |-> NoDate]}}

XrefRow(vuid, lastname, firstname, lat, party) ==
  [vuid |-> vuid, lastname |-> lastname, firstname |-> firstname, lat |-> lat, lng |-> -98,
   party |-> party]

\* rows of the geocoded data frame
XrefRows ==
  {XrefRow(V1, "Garza", "Ana", 12, "D"),
   XrefRow(V1, "Garza", "Ana", 12, "LIB"),
   XrefRow(<< >>, "garza", "ana", 14, "R"),
   XrefRow(V2, "Garza", "Ana", 12, "R"),
   XrefRow(V1, "", "", 27, "dem"),
   \* a file without PARTY column
   XrefRow(V1, "Garza", "Ana", 12, "")}

XrefIdle ==
  xref = [pc |-> "idle", county |-> "", current_election_date |-> NoDate,
          row |-> XrefRow(<< >>, "", "", 0, ""), used |-> {}, previous_party |-> "",
          primary_party |-> "", party_affiliation_current |-> ""]

XrefInit ==
  /\ XrefIdle
  /\ public_dir = EmptyDict
  /\ last_job = NoJob
  /\ \E names \in SUBSET XrefNames :
       /\ Cardinality(names) <= MaxDocs
       /\ data_dir \in [names -> UNION {DocsOf(n) : n \in XrefNames}]
       /\ \A n \in names : data_dir[n] \in DocsOf(n)

\* the primary parties a job is created with: none, or the one upload_csv
\* splits off the election type
PrimaryParties == {"", "democratic", "republican"}

\* generate_outputs for a job of (county, election_date or '', primary_party)
\* on a data frame of one row: cross_reference, then the party fields of the
\* feature
CrossReference(county, current_election_date, row, primary_party) ==
  LET earlier_datasets == find_earlier_datasets(data_dir, county, current_election_date)
  IN  IF earlier_datasets = {}
        THEN xref' = [pc |-> "done", county |-> county,
                      current_election_date |-> current_election_date, row |-> row,
                      used |-> {}, previous_party |-> "",
                      primary_party |-> primary_party,
                      party_affiliation_current |-> extract_current_party(row, primary_party)]
        ELSE \E most_recent \in MostRecent(data_dir, earlier_datasets) :
               xref' = [pc |-> "done", county |-> county,
                        current_election_date |-> current_election_date, row |-> row,
                        used |-> {most_recent},
                        previous_party |->
                          get_previous_party(row,
                                             load_voter_lookup(data_dir[most_recent].features),
                                             load_name_coord_lookup(data_dir[most_recent].features)),
                        primary_party |-> primary_party,
                        party_affiliation_current |-> extract_current_party(row, primary_party)]

\* one call per data directory: a call depends on the directory alone
XrefNext ==
  /\ xref.pc = "idle"
  /\ \E county \in {"Hidalgo", "HIDALGO"}, date \in 0..(MaxDate + 1), row \in XrefRows,
        primary_party \in PrimaryParties :
       CrossReference(county, date, row, primary_party)
  /\ UNCHANGED <<schedVars, normVars, cacheVars, geoVars, limiterVars, dataVars, pipeVars, workVars, uploadVars, lockVars, aliasVars>>

----------------------------------------------------------------------------
(* upload_csv: the handling of duplicates (app.py), and the files a job
   writes (processor.py generate_outputs, deploy_outputs) *)

\* an election date as the form gives it: one day, with or without dashes
ElectionDates == [day : {"20240305"}, dashed : BOOLEAN]

\* election_date.replace('-', '')
DateStr(election_date) == election_date.day

\* the fields of an upload request for one file
UploadForms ==
  [county : {"Hidalgo"}, year : {"2024"},
   election_type : {"primary-democratic", "primary-republican"},
   election_date : ElectionDates,
   voting_method : {"early-voting", "election-day"},
   duplicate_action : {"skip", "replace", "ignore"},
   valid : BOOLEAN]

\* the party and the election type upload_csv takes out of the form
FormParty(form) ==
  CASE form.election_type = "primary-democratic" -> "democratic"
    [] form.election_type = "primary-republican" -> "republican"
    [] OTHER -> ""

FormElectionType(form) ==
  IF form.election_type \in {"primary-democratic", "primary-republican"}
    THEN "primary" ELSE form.election_type

\* the metadata document a job of this form writes
MetaOf(form) ==
  [county |-> form.county, year |-> form.year, election_type |-> FormElectionType(form),
   election_date |-> form.election_date, voting_method |-> form.voting_method,
   primary_party |-> FormParty(form)]

\* metadata_{county}_{year}_{election_type}{_party}_{date_str}.json
MetaName(meta) ==
  <<meta.county, meta.year, meta.election_type, meta.primary_party, DateStr(meta.election_date)>>

\* metadata.json
DefaultName == <<"metadata.json">>

\* the comparison of an existing metadata document with the upload
SameDatasetLoose(existing, meta) ==
  /\ existing.county = meta.county
  /\ existing.year = meta.year
  /\ existing.election_type = meta.election_type
  /\ existing.election_date = meta.election_date
  /\ existing.voting_method = meta.voting_method

\* the files of public/data that glob('metadata*.json') yields and that match
Duplicates(public, meta) == {n \in DOMAIN public : SameDatasetLoose(public[n], meta)}

Without(dir, name) == [n \in DOMAIN dir \ {name} |-> dir[n]]

NoUpload == [outcome |-> "none", meta |-> << >>]

UploadIdle ==
  /\ data_meta = << >>
  /\ public_meta = << >>
  /\ created_jobs = << >>
  /\ last_upload = NoUpload

UploadInit == UploadIdle

\* one pass of the per-file loop of upload_csv, for a file that has its
\* required fields; the order of glob() decides which duplicate is found
upload_csv(form) ==
  LET meta == MetaOf(form)
      found == IF form.duplicate_action # "ignore" THEN Duplicates(public_meta, meta) ELSE {}
  IN  /\ Len(created_jobs) < MaxCreated
      /\ UNCHANGED data_meta
      /\ IF found # {} /\ form.duplicate_action = "skip"
           THEN /\ last_upload' = [outcome |-> "skipped", meta |-> meta]
                /\ UNCHANGED <<public_meta, created_jobs>>
           ELSE \E deleted \in (IF found # {} /\ form.duplicate_action = "replace"
                                  THEN {{n} : n \in found} ELSE {{}}) :
                  /\ public_meta' = [n \in DOMAIN public_meta \ deleted |-> public_meta[n]]
                  /\ IF form.valid
                       THEN /\ created_jobs' = Append(created_jobs, meta)
                            /\ last_upload' = [outcome |-> "queued", meta |-> meta]
                       ELSE /\ UNCHANGED created_jobs
                            /\ last_upload' = [outcome |-> "invalid", meta |-> meta]

\* the first created job runs: generate_outputs writes its pair and the
\* default pair, deploy_outputs copies both; a job that fails before writes
\* nothing
RunCreated(ok) ==
  /\ created_jobs # << >>
  /\ created_jobs' = Tail(created_jobs)
  /\ last_upload' = [outcome |-> IF ok THEN "written" ELSE "failed", meta |-> Head(created_jobs)]
  /\ LET meta == Head(created_jobs)
         written == {MetaName(meta), DefaultName}
     IN  IF ok
           THEN /\ data_meta' = [n \in DOMAIN data_meta \cup written |->
                                   IF n \in written THEN meta ELSE data_meta[n]]
                /\ public_meta' = [n \in DOMAIN public_meta \cup written |->
                                     IF n \in written THEN meta ELSE public_meta[n]]
           ELSE UNCHANGED <<data_meta, public_meta>>

UploadNext ==
  /\ \/ \E form \in UploadForms : upload_csv(form)
     \/ \E ok \in BOOLEAN : RunCreated(ok)
  /\ UNCHANGED <<schedVars, normVars, cacheVars, geoVars, limiterVars, dataVars, pipeVars, workVars, xrefVars, lockVars, aliasVars>>

SchedInit ==
  /\ active_jobs = << >>
  /\ job_queue = << >>
  /\ run_pc = << >>
  /\ begun = 0
  /\ uploading = 0
  /\ starting = 0
  /\ schedulers = << >>

\* the variables of the other specifications, at rest
NormIdle ==
  /\ address = << >>
  /\ normalized = NotYet
  /\ renormalized = NotYet

----------------------------------------------------------------------------
(* upload_csv *)

\* a request enters upload_csv and reaches the loop over its files
BeginUpload(maxRequests) ==
  /\ begun < maxRequests
  /\ begun' = begun + 1
  /\ uploading' = uploading + 1
  /\ UNCHANGED <<active_jobs, job_queue, run_pc, starting, schedulers>>

\* one file of a request is accepted: the job is created 'queued' and, under
\* jobs_lock, registered and appended to the queue
RegisterJob(maxJobs) ==
  /\ uploading > 0
  /\ Cardinality(DOMAIN active_jobs) < maxJobs
  /\ LET job_id == Cardinality(DOMAIN active_jobs) + 1
     IN  /\ active_jobs' = [j \in DOMAIN active_jobs \cup {job_id} |->
                              IF j = job_id THEN "queued" ELSE active_jobs[j]]
         /\ job_queue' = Append(job_queue, job_id)
         /\ run_pc' = [j \in DOMAIN active_jobs \cup {job_id} |->
                         IF j = job_id THEN "queued" ELSE run_pc[j]]
  /\ UNCHANGED <<begun, uploading, starting, schedulers>>

\* the loop over files ends and start_job_processor looks for a live thread
\* named 'job_processor'; it returns when one exists
CheckProcessor ==
  /\ uploading > 0
  /\ uploading' = uploading - 1
  /\ starting' = IF Len(schedulers) > 0 THEN starting ELSE starting + 1
  /\ UNCHANGED <<active_jobs, job_queue, run_pc, begun, schedulers>>

\* start_job_processor creates and starts the thread it found missing
StartProcessor ==
  /\ starting > 0
  /\ starting' = starting - 1
  /\ schedulers' = Append(schedulers, [pc |-> "poll", jobs_to_run |-> << >>])
  /\ UNCHANGED <<active_jobs, job_queue, run_pc, begun, uploading>>

----------------------------------------------------------------------------
(* process_job_queue *)

\* the scheduler's position after its current job is over: the next job of
\* jobs_to_run, or the sleep and the next pass when none is left
AfterJobs(jobs) == [pc |-> IF jobs = << >> THEN "poll" ELSE "dispatch", jobs_to_run |-> jobs]

\* Poll, keeping only the first of the jobs it pops
PollKeepsFirst(t) ==
  /\ schedulers[t].pc = "poll"
  /\ LET n == Admitted(RunningCount, Len(job_queue))
     IN  /\ schedulers' = [schedulers EXCEPT ![t] = AfterJobs(SubSeq(job_queue, 1, Min(n, 1)))]
         /\ job_queue' = SubSeq(job_queue, n + 1, Len(job_queue))
  /\ UNCHANGED <<active_jobs, run_pc, begun, uploading, starting>>

\* one pass of the loop body under jobs_lock
Poll(t) ==
  /\ schedulers[t].pc = "poll"
  /\ LET n == Admitted(RunningCount, Len(job_queue))
     IN  /\ schedulers' = [schedulers EXCEPT ![t] = AfterJobs(SubSeq(job_queue, 1, n))]
         /\ job_queue' = SubSeq(job_queue, n + 1, Len(job_queue))
  /\ UNCHANGED <<active_jobs, run_pc, begun, uploading, starting>>

\* job.run() is entered for the next job of jobs_to_run: status = 'running'
StartRun(t) ==
  /\ schedulers[t].pc = "dispatch"
  /\ LET j == Head(schedulers[t].jobs_to_run)
     IN  /\ active_jobs' = [active_jobs EXCEPT ![j] = "running"]
         /\ run_pc' = [run_pc EXCEPT ![j] = "validate"]
  /\ schedulers' = [schedulers EXCEPT ![t].pc = "in_run"]
  /\ UNCHANGED <<job_queue, begun, uploading, starting>>

\* run() returns or raises: the scheduler logs, saves and takes the next job
Returned(t) ==
  [schedulers EXCEPT ![t] = AfterJobs(Tail(@.jobs_to_run))]

----------------------------------------------------------------------------
(* ProcessingJob.run *)

\* validation passes: steps 2 to 5, or the roster path, come next
ValidateOk(t) ==
  /\ schedulers[t].pc = "in_run"
  /\ LET j == Head(schedulers[t].jobs_to_run)
     IN  /\ run_pc[j] = "validate"
         /\ run_pc' = [run_pc EXCEPT ![j] = "steps"]
  /\ UNCHANGED <<active_jobs, job_queue, begun, uploading, starting, schedulers>>

\* validation fails (status 'failed', return) or a step raises (the handler
\* sets status 'failed' and re-raises to the scheduler)
Fail(t, from) ==
  /\ schedulers[t].pc = "in_run"
  /\ LET j == Head(schedulers[t].jobs_to_run)
     IN  /\ run_pc[j] = from
         /\ active_jobs' = [active_jobs EXCEPT ![j] = "failed"]
         /\ run_pc' = [run_pc EXCEPT ![j] = "done"]
  /\ schedulers' = Returned(t)
  /\ UNCHANGED <<job_queue, begun, uploading, starting>>

\* the last pipeline step returns: status = 'completed'
Complete(t, to) ==
  /\ schedulers[t].pc = "in_run"
  /\ LET j == Head(schedulers[t].jobs_to_run)
     IN  /\ run_pc[j] = "steps"
         /\ active_jobs' = [active_jobs EXCEPT ![j] = "completed"]
         /\ run_pc' = [run_pc EXCEPT ![j] = to]
  /\ UNCHANGED <<job_queue, begun, uploading, starting, schedulers>>

\* the statistics and log lines after status = 'completed', then return
Finish(t, from) ==
  /\ schedulers[t].pc = "in_run"
  /\ LET j == Head(schedulers[t].jobs_to_run)
     IN  /\ run_pc[j] = from
         /\ run_pc' = [run_pc EXCEPT ![j] = "done"]
  /\ schedulers' = Returned(t)
  /\ UNCHANGED <<active_jobs, job_queue, begun, uploading, starting>>

ValidateFail(t) == Fail(t, "validate")
StepRaise(t) == Fail(t, "steps")
StandardOk(t) == Complete(t, "stats")
RosterOk(t) == Complete(t, "roster_log")
\* LogStats, with the closing statistics lines raising into the handler
LogStatsRaises(t) == Fail(t, "stats")
LogStats(t) == Finish(t, "stats")
RosterLog(t) == Finish(t, "roster_log")

RunStep(t) ==
  \/ ValidateOk(t) \/ ValidateFail(t)
  \/ StepRaise(t)
  \/ StandardOk(t) \/ LogStats(t)
  \/ RosterOk(t) \/ RosterLog(t)

SchedulerStep(t) == Poll(t) \/ StartRun(t) \/ RunStep(t)

Terminal == {"completed", "failed"}

SchedNext ==
  \/ BeginUpload(MaxRequests)
  \/ RegisterJob(MaxJobs)
  \/ CheckProcessor
  \/ StartProcessor
  \/ \E t \in 1..Len(schedulers) : SchedulerStep(t)

----------------------------------------------------------------------------
(* jobs_lock (app.py): the critical sections of upload_csv, process_job_queue,
   save_jobs_to_disk and get_status *)

\* the request threads: get_status, and upload_csv registering a job
StatusThread == -1
UploadThread == -2

\* the lock on leaving the 'with jobs_lock' block, kept by its thread
HeldBy(t) == t

\* the lock on leaving the 'with jobs_lock' block
Released(t) == 0

LockIdle ==
  /\ jobs_lock = 0
  /\ saving = {}

\* a thread enters 'with jobs_lock'
Acquire(t) ==
  /\ jobs_lock = 0
  /\ jobs_lock' = t

\* upload_csv enters the block that registers the job it created
UploadAcquire ==
  /\ uploading > 0
  /\ Cardinality(DOMAIN active_jobs) < LockJobs
  /\ Acquire(UploadThread)
  /\ UNCHANGED <<schedVars, saving>>

\* the job is registered and queued, and the block is left
UploadRegister ==
  /\ jobs_lock = UploadThread
  /\ RegisterJob(LockJobs)
  /\ jobs_lock' = Released(UploadThread)
  /\ UNCHANGED saving

\* get_status enters its block
StatusAcquire ==
  /\ Acquire(StatusThread)
  /\ UNCHANGED <<schedVars, saving>>

\* get_status has read every job of active_jobs and leaves the block
StatusRelease ==
  /\ jobs_lock = StatusThread
  /\ jobs_lock' = Released(StatusThread)
  /\ UNCHANGED <<schedVars, saving>>

\* the scheduler enters the block at the top of its loop
PollAcquire(t) ==
  /\ schedulers[t].pc = "poll"
  /\ t \notin saving
  /\ Acquire(t)
  /\ UNCHANGED <<schedVars, saving>>

\* the scheduler counts, pops the jobs it may start and leaves the block
PollRelease(t) ==
  /\ jobs_lock = t
  /\ t \notin saving
  /\ Poll(t)
  /\ jobs_lock' = Released(t)
  /\ UNCHANGED saving

\* job.run() is entered, outside the block
LockedStartRun(t) ==
  /\ t \notin saving
  /\ StartRun(t)
  /\ UNCHANGED lockVars

\* a step of job.run(); when run() returns or raises, save_jobs_to_disk is next
LockedRunStep(t) ==
  /\ RunStep(t)
  /\ saving' = IF schedulers'[t] # schedulers[t] THEN saving \cup {t} ELSE saving
  /\ UNCHANGED jobs_lock

\* save_jobs_to_disk, in the scheduler's finally: it enters its block
SaveAcquire(t) ==
  /\ t \in saving
  /\ Acquire(t)
  /\ UNCHANGED <<schedVars, saving>>

\* save_jobs_to_disk has copied the jobs and leaves its block
SaveRelease(t) ==
  /\ t \in saving
  /\ jobs_lock = t
  /\ jobs_lock' = Released(t)
  /\ saving' = saving \ {t}
  /\ UNCHANGED schedVars

\* the loop over the files of a request ends, outside the block (the step
\* commutes with the registration of another request's job)
LockedCheckProcessor ==
  /\ jobs_lock # UploadThread
  /\ CheckProcessor
  /\ UNCHANGED lockVars

LockNext ==
  /\ \/ BeginUpload(LockRequests) /\ UNCHANGED lockVars
     \/ UploadAcquire
     \/ UploadRegister
     \/ LockedCheckProcessor
     \/ StartProcessor /\ UNCHANGED lockVars
     \/ StatusAcquire
     \/ StatusRelease
     \/ \E t \in 1..Len(schedulers) :
          \/ PollAcquire(t) \/ PollRelease(t)
          \/ LockedStartRun(t) \/ LockedRunStep(t)
          \/ SaveAcquire(t) \/ SaveRelease(t)
  /\ UNCHANGED <<normVars, cacheVars, geoVars, limiterVars, dataVars, pipeVars, workVars, xrefVars, uploadVars, aliasVars>>

----------------------------------------------------------------------------
(* generate_outputs of standard jobs, write by write, on the threads that
   run them *)

\* the files generate_outputs writes, in the order it writes them: the
\* key-named map, the default map, the key-named metadata, the default metadata
Writes(job) ==
  << <<"map_data", job>>, <<"map_data.json">>, <<"metadata", job>>, <<"metadata.json">> >>

\* a 'job_processor' thread between two jobs
Waiting == [job |-> 0, written |-> 0]

AliasIdle ==
  /\ outputs = << >>
  /\ processors = << >>
  /\ started = 0

\* one thread, or the threads that racing start_job_processor calls started
AliasInit ==
  /\ outputs = << >>
  /\ started = 0
  /\ \E n \in 1..MaxProcessors : processors = [t \in 1..n |-> Waiting]

\* job.run() of the next job reaches generate_outputs on thread t
EnterGenerate(t) ==
  /\ processors[t].job = 0
  /\ started < MaxOutputJobs
  /\ started' = started + 1
  /\ processors' = [processors EXCEPT ![t] = [job |-> started + 1, written |-> 0]]
  /\ UNCHANGED outputs

\* the next open(path, 'w') and json.dump of generate_outputs, or its
\* failure: the exception ends run() with what was written left in place
WriteOutput(t, ok) ==
  /\ processors[t].job # 0
  /\ LET job == processors[t].job
         file == Writes(job)[processors[t].written + 1]
     IN  IF ok
           THEN /\ outputs' = [n \in DOMAIN outputs \cup {file} |->
                                 IF n = file THEN job ELSE outputs[n]]
                /\ processors' = [processors EXCEPT ![t] =
                     IF processors[t].written + 1 = Len(Writes(job))
                       THEN Waiting
                       ELSE [job |-> job, written |-> processors[t].written + 1]]
           ELSE /\ processors' = [processors EXCEPT ![t] = Waiting]
                /\ UNCHANGED outputs
  /\ UNCHANGED started

OutputNext ==
  /\ \E t \in 1..Len(processors) :
       \/ EnterGenerate(t)
       \/ \E ok \in BOOLEAN : WriteOutput(t, ok)
  /\ UNCHANGED <<schedVars, normVars, cacheVars, geoVars, limiterVars, dataVars, pipeVars, workVars, xrefVars, uploadVars, lockVars>>

Init == SchedInit /\ NormIdle /\ CacheIdle /\ GeoIdle /\ LimiterIdle /\ DataIdle /\ PipeIdle /\ WorkIdle /\ XrefIdle /\ UploadIdle /\ LockIdle /\ AliasIdle

Next == SchedNext /\ UNCHANGED <<normVars, cacheVars, geoVars, limiterVars, dataVars, pipeVars, workVars, xrefVars, uploadVars, lockVars, aliasVars>>

Spec == Init /\ [][Next]_vars

FairNext ==
  /\ \/ BeginUpload(FairRequests)
     \/ RegisterJob(FairJobs)
     \/ CheckProcessor
     \/ StartProcessor
     \/ \E t \in 1..Len(schedulers) : SchedulerStep(t)
  /\ UNCHANGED <<normVars, cacheVars, geoVars, limiterVars, dataVars, pipeVars, workVars, xrefVars, uploadVars, lockVars, aliasVars>>

\* every request handler runs on, and so does every 'job_processor' thread
\* (its loop never ends, each step of run() returns)
Fairness ==
  /\ WF_schedVars(CheckProcessor)
  /\ WF_schedVars(StartProcessor)
  /\ \A t \in 1..FairRequests : WF_schedVars(t <= Len(schedulers) /\ SchedulerStep(t))

FairSpec == Init /\ [][FairNext]_vars /\ Fairness

NormStart == NormInit /\ SchedInit /\ CacheIdle /\ GeoIdle /\ LimiterIdle /\ DataIdle /\ PipeIdle /\ WorkIdle /\ XrefIdle /\ UploadIdle /\ LockIdle /\ AliasIdle

NormSpec == NormStart /\ [][NormNext]_vars

CacheStart == CacheInit /\ SchedInit /\ NormIdle /\ GeoIdle /\ LimiterIdle /\ DataIdle /\ PipeIdle /\ WorkIdle /\ XrefIdle /\ UploadIdle /\ LockIdle /\ AliasIdle

CacheSpec == CacheStart /\ [][CacheNext]_vars

SetGetStart == SetGetInit /\ SchedInit /\ NormIdle /\ GeoIdle /\ LimiterIdle /\ DataIdle /\ PipeIdle /\ WorkIdle /\ XrefIdle /\ UploadIdle /\ LockIdle /\ AliasIdle

SetGetSpec == SetGetStart /\ [][SetGetNext]_vars

GeoStart == GeoInit /\ SchedInit /\ NormIdle /\ LimiterIdle /\ DataIdle /\ PipeIdle /\ WorkIdle /\ XrefIdle /\ UploadIdle /\ LockIdle /\ AliasIdle

\* the job's cache instance exists before its orchestrator is used
GeoStep ==
  \/ NewCache(1) /\ UNCHANGED <<schedVars, normVars, geoVars, limiterVars, dataVars, pipeVars, workVars, xrefVars, uploadVars, lockVars, aliasVars>>
  \/ GeoNext

GeoSpec == GeoStart /\ [][GeoStep]_vars

LimiterStart == LimiterInit /\ SchedInit /\ NormIdle /\ CacheIdle /\ GeoIdle /\ DataIdle /\ PipeIdle /\ WorkIdle /\ XrefIdle /\ UploadIdle /\ LockIdle /\ AliasIdle

LimiterSpec == LimiterStart /\ [][LimiterNext]_vars

SharedLimiterSpec == LimiterStart /\ [][SharedLimiterNext]_vars

DataStart == DataInit /\ SchedInit /\ NormIdle /\ CacheIdle /\ GeoIdle /\ LimiterIdle /\ PipeIdle /\ WorkIdle /\ XrefIdle /\ UploadIdle /\ LockIdle /\ AliasIdle

DataSpec == DataStart /\ [][DataNext]_vars

\* jobs run step by step, one after another
PipeStart == PipeInit /\ SchedInit /\ NormIdle /\ CacheIdle /\ GeoIdle /\ LimiterIdle /\ DataIdle /\ WorkIdle /\ XrefIdle /\ UploadIdle /\ LockIdle /\ AliasIdle

PipelineSpec == PipeStart /\ [][PipeNext]_vars

\* one geocode_addresses call, its workers and the collecting thread
WorkStart == WorkInit /\ SchedInit /\ NormIdle /\ CacheIdle /\ GeoIdle /\ LimiterIdle /\ DataIdle /\ PipeIdle /\ XrefIdle /\ UploadIdle /\ LockIdle /\ AliasIdle

ParallelSpec == WorkStart /\ [][WorkNext]_vars

\* cross_reference calls over one data directory
XrefStart == XrefInit /\ SchedInit /\ NormIdle /\ CacheIdle /\ GeoIdle /\ LimiterIdle /\ PipeIdle /\ WorkIdle /\ UploadIdle /\ LockIdle /\ AliasIdle

CrossRefSpec == XrefStart /\ [][XrefNext]_vars

\* the scheduler, the uploads and the status queries around jobs_lock
LockStart == SchedInit /\ NormIdle /\ CacheIdle /\ GeoIdle /\ LimiterIdle /\ DataIdle /\ PipeIdle /\ WorkIdle /\ XrefIdle /\ UploadIdle /\ LockIdle /\ AliasIdle

LockSpec == LockStart /\ [][LockNext]_vars

\* the output files of standard jobs run by one or more scheduler threads
OutputStart == AliasInit /\ SchedInit /\ NormIdle /\ CacheIdle /\ GeoIdle /\ LimiterIdle /\ DataIdle /\ PipeIdle /\ WorkIdle /\ XrefIdle /\ UploadIdle /\ LockIdle

OutputSpec == OutputStart /\ [][OutputNext]_vars

\* uploads with a duplicate action, and the jobs they create
UploadStart == UploadInit /\ SchedInit /\ NormIdle /\ CacheIdle /\ GeoIdle /\ LimiterIdle /\ DataIdle /\ PipeIdle /\ WorkIdle /\ XrefIdle /\ LockIdle /\ AliasIdle

DuplicateSpec == UploadStart /\ [][UploadNext]_vars

----------------------------------------------------------------------------
(* Claims *)

\* C1: the number of jobs whose status is 'running' never exceeds
\* max_concurrent_jobs.
RunningBound == RunningCount <= max_concurrent_jobs

\* C2: a job's status only moves queued -> running -> completed or
\* queued -> running -> failed; completed and failed are absorbing, and no
\* job leaves the registry.
StatusMonotonic ==
  [][\A j \in DOMAIN active_jobs :
       /\ j \in DOMAIN active_jobs'
       /\ \/ active_jobs'[j] = active_jobs[j]
          \/ active_jobs[j] = "queued" /\ active_jobs'[j] = "running"
          \/ active_jobs[j] = "running" /\ active_jobs'[j] \in Terminal]_vars

\* a completed job whose run() has gone through its closing statistics lines
CompletedAndReturned ==
  \E j \in DOMAIN active_jobs : active_jobs[j] = "completed" /\ run_pc[j] = "done"

\* C3: under fair scheduling every accepted job eventually reaches
\* 'completed' or 'failed', and none is dropped from the registry.
EveryJobTerminates ==
  /\ \A j \in 1..FairJobs :
       (j \in DOMAIN active_jobs) ~> (j \in DOMAIN active_jobs /\ active_jobs[j] \in Terminal)
  /\ [][DOMAIN active_jobs \subseteq DOMAIN active_jobs']_vars

\* every accepted job is over, some of them taken by a scheduler as the
\* second or third job of one pass
AllJobsOver ==
  /\ Cardinality(DOMAIN active_jobs) = FairJobs
  /\ job_queue = << >>
  /\ \A j \in DOMAIN active_jobs : active_jobs[j] \in Terminal /\ run_pc[j] = "done"

\* the keys of the document at the cache file path
PersistedKeys ==
  IF paths.cache # 0 /\ Parses(CacheFileContent)
    THEN {CacheFileContent[i].key : i \in 1..(Len(CacheFileContent) - 1)}
    ELSE {}

\* C4: an entry once written to the persisted cache file is still in the
\* file after every later cache write by any job.
PersistedEntriesKept ==
  [][\A key \in PersistedKeys : key \in PersistedKeys']_vars

\* C5: at every instant the persisted cache file is a complete image of one
\* writer's map as of one set() call (or the file the run started with).
FileIsCompleteImage ==
  \/ paths.cache = 0
  \/ CacheFileContent \in images
  \/ CacheFileContent = Encode(<<LegacyEntry>>)

\* C6: after set(a, r), get(a) returns an entry with r's lat and lng, and a
\* set on a normalized key the cache holds replaces the entry: size unchanged,
\* one entry per normalized key.
SetThenGet ==
  [][\A c \in CacheIds :
       (caches[c].pc = "idle" /\ caches'[c].pc = "writing") =>
         LET a == caches'[c].address
             r == caches'[c].result
             old == caches[c].cache
             new == caches'[c].cache
         IN  /\ CacheGet(new, a) # None
             /\ CacheGet(new, a).lat = r.lat
             /\ CacheGet(new, a).lng = r.lng
             /\ HasKey(old, normalize_address(a)) => CacheSize(new) = CacheSize(old)
             /\ Cardinality({i \in 1..Len(new) : new[i].key = normalize_address(a)}) = 1]_vars

\* a cache instance after two set() calls on differently written addresses
\* of one normalized key: one entry for it, holding the second result
SecondSetReplaced ==
  \E c \in CacheIds :
    /\ caches[c].sets = 2
    /\ caches[c].pc = "writing"
    /\ caches[c].address = Addr1Long
    /\ Cardinality({i \in 1..Len(caches[c].cache) :
                      caches[c].cache[i].key = normalize_address(Addr1)}) = 1
    /\ CacheSize(caches[c].cache) = 1
    /\ CacheGet(caches[c].cache, Addr1).lat = caches[c].result.lat

\* the address with its state written in full
SpellTexas(str) == [i \in 1..Len(str) |-> IF Upper(str[i]) = "TX" THEN "TEXAS" ELSE str[i]]

\* C7: normalize_address is idempotent, and the 'TX' and 'TEXAS' forms of an
\* address normalize to the same key, which spells TEXAS.
NormalizeIdempotent ==
  renormalized # NotYet =>
    /\ renormalized = normalized
    /\ normalize_address(SpellTexas(address)) = normalized
    /\ \A i \in 1..Len(normalized) : normalized[i] # "TX"

\* an address with an abbreviated street type and state has been normalized twice
AbbreviatedNormalizedTwice ==
  /\ renormalized # NotYet
  /\ \E i, j \in 1..Len(address) : Upper(address[i]) = "TX" /\ Upper(address[j]) = "ST"
  /\ normalized # address

\* the providers called, in order, by the geocode() call that last returned
\* from the first pass with provider k's result
Winner == IF geo.result.source = "aws_location" THEN "aws" ELSE geo.result.source

\* the priority order: AWS if configured, Census, Photon, then Nominatim
PriorityOrder ==
  IF aws_client THEN <<"aws", "census", "photon", "nominatim">>
  ELSE <<"census", "photon", "nominatim">>

\* C8: on an uncached address the providers are called in priority order and
\* the call stops at the first success: provider k's result is returned, each
\* provider before k was called once and its failure counter rose by one, no
\* provider after k is called.
FirstSuccessWins ==
  (geo.pc = "returned" /\ geo.calls # << >> /\ geo.result # None /\ geo.phase = "full") =>
    LET k == IndexIn(PriorityOrder, Winner)
    IN  /\ geo.result.lat = Answer(Winner, geo.address, geo.address).lat
        /\ \A i \in 1..(k - 1) :
             /\ geo.calls[i] = PriorityOrder[i]
             /\ stats[PriorityOrder[i]].api_calls = geo.entry[PriorityOrder[i]].api_calls + 1
             /\ stats[PriorityOrder[i]].failures = geo.entry[PriorityOrder[i]].failures + 1
        /\ \A i \in k..Len(geo.calls) : geo.calls[i] = Winner
        /\ Len(geo.calls) >= k
        /\ Winner # "nominatim" => Len(geo.calls) = k
        /\ \A i \in (k + 1)..Len(PriorityOrder) :
             PriorityOrder[i] # "nominatim" => stats[PriorityOrder[i]] = geo.entry[PriorityOrder[i]]
        /\ Winner # "nominatim" => stats.api_calls = geo.entry.api_calls /\ geo.waits = 0

\* geocode() returned Photon's result after AWS and Census had failed
PhotonWonAfterTwoFailures ==
  /\ geo.pc = "returned"
  /\ geo.phase = "full"
  /\ geo.result.source = "photon"
  /\ geo.calls = <<"aws", "census", "photon">>

\* C9: for a single caller, call number maxRequests+1 is admitted no earlier
\* than period after the first, and so for every run of maxRequests+1
\* consecutive admissions: no window of length period holds more than
\* maxRequests of them.
SingleCallerRate ==
  \A i \in 1..Len(admissions) :
    i + limiter.max_requests <= Len(admissions) =>
      admissions[i + limiter.max_requests] - admissions[i] >= limiter.period

\* the caller slept and call maxRequests+1 was admitted exactly period after the first
AdmittedAfterSleep ==
  /\ Len(admissions) > limiter.max_requests
  /\ admissions[limiter.max_requests + 1] = admissions[1] + limiter.period
  /\ limiter.period > 1

\* C10: with several threads calling wait() on the shared limiter, the number
\* of calls admitted within any window of length period is at most maxRequests.
SharedLimiterRate ==
  \A start \in 0..clock :
    Cardinality({i \in 1..Len(admissions) :
                   start <= admissions[i] /\ admissions[i] < start + limiter.period})
      <= limiter.max_requests

\* the last step ran a standard job through its output step
StandardJobDone == last_job'.count # last_job.count /\ last_job'.kind = "standard" /\ last_job'.status = "completed"

\* the features emitted hold this voter id with coordinates
HoldsWithCoordinates(emitted, vuid) ==
  \E j \in 1..Len(emitted) :
    /\ normalize_vuid(emitted[j].vuid) = normalize_vuid(vuid)
    /\ emitted[j].geometry \in Places

\* the features of an early vote file that were unmatched with null geometry
\* and whose id the standard job emitted with coordinates
ToResolve(features, emitted) ==
  {i \in 1..Len(features) : /\ features[i].unmatched
                            /\ features[i].geometry = NoGeometry
                            /\ HoldsWithCoordinates(emitted, features[i].vuid)}

\* C11: once a standard job of the jurisdiction whose output holds id V with
\* coordinates has completed its output step, every early vote feature for V
\* that was unmatched with null geometry is matched with coordinates, and the
\* file's metadata counts one unmatched id less per feature so resolved,
\* whatever the dataset's election date relative to the roster date.
UnmatchedReResolved ==
  [][StandardJobDone =>
       \A n \in DOMAIN data_dir :
         (/\ n.county = last_job'.county
          /\ data_dir[n].meta.is_early_voting
          /\ n # FileName(last_job'.county, last_job'.party, last_job'.date)) =>
           LET to_resolve == ToResolve(data_dir[n].features, last_job'.emitted)
           IN  /\ \A i \in to_resolve :
                    /\ ~data_dir'[n].features[i].unmatched
                    /\ data_dir'[n].features[i].geometry \in Places
               /\ data_dir'[n].meta.unmatched_vuids
                    = data_dir[n].meta.unmatched_vuids - Cardinality(to_resolve)]_vars

\* the datasets of the jurisdiction persisted before the last job, strictly
\* earlier than its election date and none of them later than another
MostRecentEarlier ==
  LET current_election_date == IF last_job'.date = Unknown THEN NoDate ELSE last_job'.date
  IN  MostRecent(data_dir, find_earlier_datasets(data_dir, last_job'.county, current_election_date))

\* C12: when the most recent strictly earlier dataset of the jurisdiction
\* holds voter id V with party Q and the current dataset holds V with a
\* different party P, the feature emitted for V has
\* party_affiliation_previous = Q and has_switched_parties = true.
PartySwitchDetected ==
  [][StandardJobDone =>
       \A n \in MostRecentEarlier :
         Cardinality(MostRecentEarlier) = 1 =>
           \A i \in 1..Len(last_job'.emitted), j \in 1..Len(data_dir[n].features) :
             LET current == last_job'.emitted[i]
                 earlier == data_dir[n].features[j]
             IN  (/\ earlier.vuid = current.vuid
                  /\ earlier.party_affiliation_current # ""
                  /\ earlier.party_affiliation_current # current.party_affiliation_current) =>
                   /\ current.party_affiliation_previous = earlier.party_affiliation_current
                   /\ current.has_switched_parties]_vars

\* the election date the standard job of the last step was given, if any
CurrentElectionDate == IF last_job'.date = Unknown THEN NoDate ELSE last_job'.date

\* before the last step no persisted dataset of its jurisdiction had an
\* election date strictly earlier than its own
NoEarlierDataset ==
  \A n \in DOMAIN data_dir :
    ~(/\ data_dir[n].meta.county = last_job'.county
      /\ data_dir[n].meta.election_date # NoDate
      /\ CurrentElectionDate # NoDate
      /\ data_dir[n].meta.election_date < CurrentElectionDate)

\* C13: when no persisted dataset of the same jurisdiction has an election
\* date strictly earlier than the current one, the previous party of every
\* voter of the current dataset is the empty string and the job does not fail.
FirstDatasetHasNoPrevious ==
  [][(/\ last_job'.count # last_job.count
      /\ last_job'.kind = "standard"
      /\ NoEarlierDataset) =>
       /\ last_job'.status = "completed"
       /\ \A i \in 1..Len(last_job'.emitted) :
            last_job'.emitted[i].party_affiliation_previous = ""]_vars

\* a standard job completed with no previous party although another
\* jurisdiction has an earlier dataset and its own has one of the same date
\* holding one of its voters with another party
NoPreviousBesideOtherDatasets ==
  /\ last_job.kind = "standard"
  /\ last_job.status = "completed"
  /\ last_job.date \in Dates
  /\ \A i \in 1..Len(last_job.emitted) : last_job.emitted[i].party_affiliation_previous = ""
  /\ \E n \in DOMAIN data_dir :
       /\ n.county \in Counties \ {last_job.county}
       /\ data_dir[n].meta.election_date # NoDate
       /\ data_dir[n].meta.election_date < last_job.date
  /\ \E n \in DOMAIN data_dir :
       /\ n.county = last_job.county
       /\ n # FileName(last_job.county, last_job.party, last_job.date)
       /\ data_dir[n].meta.election_date = last_job.date
       /\ \E i \in 1..Len(last_job.emitted), j \in 1..Len(data_dir[n].features) :
            /\ data_dir[n].features[j].vuid = last_job.emitted[i].vuid
            /\ data_dir[n].features[j].party_affiliation_current
                 \notin {"", last_job.emitted[i].party_affiliation_current}
  /\ \A n \in DOMAIN data_dir :
       n.county = last_job.county =>
         data_dir[n].meta.election_date \in {NoDate, last_job.date}

\* the daily snapshots beside a cumulative file: the other files of its county
Snapshots(cum) == {n \in DOMAIN data_dir : n.county = cum.county /\ n.date # Cumulative}

\* only roster jobs of one dataset key have written into the county of this cumulative file
OneKeyRosters(cum) ==
  \A n \in Snapshots(cum) : data_dir[n].meta.is_early_voting /\ n.party = cum.party

\* the positions of a voter id among some features
Occurrences(features, id) == {i \in 1..Len(features) : normalize_vuid(features[i].vuid) = id}

\* the feature for the id in the latest-dated snapshot that holds it
LatestFeature(cum, id) ==
  LET holding == {n \in Snapshots(cum) : Occurrences(data_dir[n].features, id) # {}}
      latest == CHOOSE n \in holding : \A m \in holding : m.date <= n.date
      at == Occurrences(data_dir[latest].features, id)
  IN  data_dir[latest].features[CHOOSE i \in at : \A k \in at : k <= i]

\* C14: after any sequence of roster jobs for one dataset key, the
\* cumulative file holds exactly one feature per normalized voter id found
\* in any daily snapshot, namely the one of the latest-dated snapshot holding it.
CumulativeHoldsLatest ==
  \A cum \in DOMAIN data_dir :
    (cum.date = Cumulative /\ OneKeyRosters(cum)) =>
      LET ids == UNION {{normalize_vuid(data_dir[n].features[i].vuid) :
                           i \in 1..Len(data_dir[n].features)} : n \in Snapshots(cum)}
          merged == data_dir[cum].features
      IN  /\ \A id \in ids :
               /\ Cardinality(Occurrences(merged, id)) = 1
               /\ \A i \in Occurrences(merged, id) : merged[i] = LatestFeature(cum, id)
          /\ \A i \in 1..Len(merged) : normalize_vuid(merged[i].vuid) \in ids

\* two snapshots of one key hold the same id with different data and the
\* cumulative file carries the later one
LaterSnapshotWins ==
  \E cum \in DOMAIN data_dir :
    /\ cum.date = Cumulative
    /\ OneKeyRosters(cum)
    /\ \E n1, n2 \in Snapshots(cum) :
         /\ n1.date < n2.date
         /\ \E i \in 1..Len(data_dir[n1].features), j \in 1..Len(data_dir[n2].features) :
              /\ normalize_vuid(data_dir[n1].features[i].vuid)
                   = normalize_vuid(data_dir[n2].features[j].vuid)
              /\ data_dir[n1].features[i] # data_dir[n2].features[j]
              /\ \E m \in 1..Len(data_dir[cum].features) :
                   data_dir[cum].features[m] = data_dir[n2].features[j]

\* C15: a voter file with at least one record that passes validation ends
\* 'completed' whichever of its records the geocoder misses, every one of
\* them included, as long as no write, copy or provider call raises; and each
\* missed record is in the job's error list.
MissesNeverFail ==
  (/\ current_job.id > 0
   /\ current_job.pc = "done"
   /\ ~detect_early_vote_roster(current_job.columns)
   /\ validate_csv(current_job.columns, current_job.rows)
   /\ Len(current_job.rows) > 0
   /\ ~current_job.fault)
  => /\ current_job.status = "completed"
     /\ current_job.misses \subseteq Members(current_job.errors)

LacksRequiredColumn(columns) == ~({"ADDRESS", "PRECINCT", "BALLOT STYLE"} \subseteq columns)

RejectedUpload ==
  /\ current_job.id > 0
  /\ LacksRequiredColumn(current_job.columns)
  /\ ~detect_early_vote_roster(current_job.columns)

\* C16: a job whose upload lacks ADDRESS, PRECINCT or BALLOT STYLE and is not
\* an id-only roster ends 'failed' without a provider call, a cache write, an
\* output file or a copy to the public directory, and leaves the cache, the
\* data directory and the public directory as it found them.
ValidationFailureLeavesNoTrace ==
  RejectedUpload =>
    /\ current_job.status \in {"queued", "failed"}
    /\ current_job.pc = "done" => current_job.status = "failed"
    /\ current_job.api_calls = 0
    /\ current_job.cache_writes = 0
    /\ current_job.written = {}
    /\ current_job.copied = {}
    /\ disk = disk_before

\* an upload is rejected after an earlier job filled the cache and both directories
RejectedAfterEarlierJob ==
  /\ RejectedUpload
  /\ current_job.status = "failed"
  /\ disk.cache # {}
  /\ disk.data # {}
  /\ disk.public # {}

\* C17: a job that ends 'failed' has copied no file into the public directory.
FailedJobDeployedNothing == current_job.status = "failed" => current_job.copied = {}

ProgressInRange == 0 <= current_job.progress /\ current_job.progress <= One

ProgressDoneOnlyCompleting ==
  current_job.progress = One =>
    \/ current_job.status = "completed"
    \/ current_job.status = "running" /\ current_job.pc = "complete"

ProgressStep ==
  current_job'.id = current_job.id =>
    /\ current_job'.progress >= current_job.progress
    /\ current_job.progress = One => current_job'.status = "completed"

\* C18: on the voter-file path and on the roster path the progress of a job
\* never decreases, stays within [0, 1], and is 1.0 only in a job that is
\* completed or whose next step sets it 'completed'.
ProgressContract ==
  /\ [](ProgressInRange /\ ProgressDoneOnlyCompleting)
  /\ [][ProgressStep]_vars

\* a voter file of two or more records completed, having passed through the
\* values between 0.2 and 0.7
CompletedAfterLinearProgress ==
  /\ current_job.status = "completed"
  /\ current_job.progress = One
  /\ ~detect_early_vote_roster(current_job.columns)
  /\ current_job.processed_records >= 2
  /\ current_job.misses # {}

\* C19: jobs admitted together run at the same time: while a job admitted by
\* a pass of the scheduler is inside run(), no job admitted by the same pass
\* is still waiting, with status 'queued', for it to finish.
AdmittedJobsRunTogether ==
  \A t \in 1..Len(schedulers) :
    schedulers[t].pc = "in_run" =>
      \A k \in 2..Len(schedulers[t].jobs_to_run) :
        active_jobs[schedulers[t].jobs_to_run[k]] # "queued"

\* the result a provider or the ZIP fallback gave is in the cache under the
\* key of the address geocode() was called with
StoredUnderOwnKey ==
  (geo.pc = "returned" /\ geo.result # None /\ geo.calls # << >>) =>
    /\ HasKey(caches[1].cache, normalize_address(geo.address))
    /\ CacheGet(caches[1].cache, geo.address).lat = geo.result.lat
    /\ CacheGet(caches[1].cache, geo.address).lng = geo.result.lng

\* geocode(a) directly after geocode(a) returned a result: a cache hit with
\* the same coordinates, no provider call and no wait
RepeatedCall ==
  (/\ geo.pc = "returned"
   /\ geo.result # None
   /\ geo'.count = geo.count + 1
   /\ geo'.address = geo.address)
  => /\ geo'.pc = "returned"
     /\ geo'.result.lat = geo.result.lat
     /\ geo'.result.lng = geo.result.lng
     /\ geo'.calls = << >>
     /\ geo'.waits = 0
     /\ stats' = [stats EXCEPT !.cache_hits = @ + 1]

\* C20: a result geocode(a) returns, from a provider on the full address or
\* from the ZIP fallback, is stored under a's own key, and an immediately
\* following geocode(a) on the same orchestrator returns the same
\* coordinates as a cache hit, with no provider call and no limiter wait.
RepeatIsCacheHit == []StoredUnderOwnKey /\ [][RepeatedCall]_vars

\* the second call was a cache hit on the result the ZIP fallback gave the first
CacheHitAfterZipFallback ==
  /\ geo.pc = "returned"
  /\ geo.count = 2
  /\ geo.calls = << >>
  /\ geo.result.fallback = "zip_code"
  /\ stats.zip_fallback_success = 1
  /\ stats.cache_hits = 1

\* the positions of geo.queries that carry the ZIP query
ZipCalls == {i \in 1..Len(geo.queries) : geo.queries[i] # geo.address}

\* a ZIP query is issued only for an address with a 5-digit token, it is
\* f"{zip}, Texas, USA", and before it every configured provider was asked
\* for the full address (and failed: the call went on)
ZipOnlyAfterFullPass ==
  \A i \in ZipCalls :
    /\ HasZip(geo.address)
    /\ geo.queries[i] = ZipAddress(geo.address)
    /\ \A j \in 1..Len(PriorityOrder) :
         \E k \in 1..(i - 1) : geo.queries[k] = geo.address /\ geo.calls[k] = PriorityOrder[j]
    /\ \A k \in (i + 1)..Len(geo.queries) : k \in ZipCalls

\* the ZIP pass asks the providers in priority order, one after the other,
\* and stops at the first that answers
ZipPassInOrder ==
  /\ \A i \in ZipCalls :
       /\ (i - 1) \notin ZipCalls => geo.calls[i] = PriorityOrder[1]
       /\ (i - 1) \in ZipCalls =>
            IF geo.calls[i - 1] = "nominatim" THEN geo.calls[i] = "nominatim"
            ELSE geo.calls[i] = PriorityOrder[IndexIn(PriorityOrder, geo.calls[i - 1]) + 1]
  /\ (geo.pc = "returned" /\ geo.phase = "zip" /\ geo.result # None) =>
       /\ geo.calls[Len(geo.calls)] = Winner
       /\ geo.result.lat = Answer(Winner, ZipAddress(geo.address), geo.address).lat
       /\ \A i \in ZipCalls : i < Len(geo.calls) => geo.calls[i] # Winner \/ Winner = "nominatim"

\* a result of the ZIP pass carries fallback = 'zip_code' and the address
\* geocode() was called with
ZipResultTagged ==
  (geo.pc = "returned" /\ geo.phase = "zip" /\ geo.result # None) =>
    /\ geo.result.fallback = "zip_code"
    /\ geo.result.original_address = geo.address
    /\ stats.zip_fallback_success = geo.entry.zip_fallback_success + 1
    /\ stats.failures = geo.entry.failures

\* when every provider failed in both passes, or in the first pass of an
\* address without ZIP code, failures rose by one and None is returned
AllFailedCountsOnce ==
  (geo.pc = "returned" /\ geo.result = None) =>
    /\ stats.failures = geo.entry.failures + 1
    /\ stats.zip_fallback_success = geo.entry.zip_fallback_success
    /\ HasZip(geo.address) <=> ZipCalls # {}
    /\ geo.calls[Len(geo.calls)] = "nominatim"

\* C21: the ZIP query is issued only after every configured provider failed
\* on the full address and only when the address holds a 5-digit token; the
\* ZIP pass asks the providers in the same priority order and stops at the
\* first answer; its result is tagged fallback = 'zip_code' with
\* original_address the input; when all fail, failures rises by exactly one
\* and None is returned.
ZipFallbackContract ==
  /\ ZipOnlyAfterFullPass
  /\ ZipPassInOrder
  /\ ZipResultTagged
  /\ AllFailedCountsOnce

\* Photon answered the ZIP query after all four providers had failed on the
\* full address and AWS and Census on the ZIP query
ZipFallbackFromPhoton ==
  /\ geo.pc = "returned"
  /\ geo.phase = "zip"
  /\ geo.result.source = "photon"
  /\ geo.result.original_address = geo.address
  /\ geo.calls = <<"aws", "census", "photon", "nominatim", "aws", "census", "photon">>

\* C22: one invocation of _call_nominatim under repeated 429 makes at most
\* three HTTP attempts, sleeping 2 s, 4 s and 8 s between them, then returns
\* None; an attempt that fails otherwise is never retried (each attempt after
\* the first follows one backoff sleep).
NominatimAtMostThreeAttempts ==
  /\ geo.attempts <= 3
  /\ \A i \in 1..Len(geo.sleeps) : geo.sleeps[i] = <<2, 4, 8>>[i]
  /\ geo.attempts <= Len(geo.sleeps) + 1

\* no increment is lost: each counter equals the number of += statements
\* completed on it
NoIncrementLost ==
  /\ counts.geocoded_count = applied.geocoded_count
  /\ counts.failed_count = applied.failed_count
  /\ counts.processed_records = applied.processed_records

\* C23: in the parallel geocode step, under every interleaving of the
\* workers and the collecting thread, no increment of a counter is lost and
\* processed_records <= geocoded_count + failed_count <= total_records at
\* every instant; at the end geocoded_count + failed_count =
\* processed_records = the number of records geocoded.
CountersConsistent ==
  /\ NoIncrementLost
  /\ counts.processed_records <= counts.geocoded_count + counts.failed_count
  /\ counts.geocoded_count + counts.failed_count <= counts.total_records
  /\ (collector.pc = "end" /\ futures # << >>) =>
       /\ counts.geocoded_count + counts.failed_count = counts.processed_records
       /\ counts.processed_records = Len(futures)

\* two workers were inside geocode_single_address together, one succeeded,
\* one failed, a third raised, and the step has ended
ParallelStepEnded ==
  /\ collector.pc = "end"
  /\ Len(futures) = 3
  /\ counts.geocoded_count >= 1
  /\ counts.failed_count = 2
  /\ \E i \in DOMAIN futures : futures[i].status = "raised"
  /\ \E i \in DOMAIN futures : futures[i].status = "error"

\* the county a spelling names: 1 and 2 for the two counties, 0 for none
Jurisdiction(county) ==
  CASE county \in {"Hidalgo", "hidalgo", "HIDALGO"} -> 1
    [] county \in {"Cameron", "cameron", "CAMERON"} -> 2
    [] OTHER -> 0

\* the persisted datasets of the engine's jurisdiction with county and
\* election_date present and a date strictly before the engine's
StrictlyEarlierSameJurisdiction ==
  {n \in DOMAIN data_dir :
     /\ Jurisdiction(data_dir[n].meta.county) = Jurisdiction(xref.county)
     /\ data_dir[n].meta.election_date # NoDate
     /\ xref.current_election_date # NoDate
     /\ data_dir[n].meta.election_date < xref.current_election_date}

\* C24: the dataset cross_reference uses is of the same jurisdiction,
\* compared without regard to case, and its election date is the greatest of
\* those strictly earlier than the current one; a dataset with an equal or
\* later date, of another jurisdiction, or without county or election_date is
\* never used, and none is used when there is no such dataset.
UsesMostRecentEarlier ==
  xref.pc = "done" =>
    /\ xref.used \subseteq StrictlyEarlierSameJurisdiction
    /\ xref.used = {} <=> StrictlyEarlierSameJurisdiction = {}
    /\ \A n \in xref.used, m \in StrictlyEarlierSameJurisdiction :
         data_dir[m].meta.election_date <= data_dir[n].meta.election_date

\* the later of two earlier elections of 'hidalgo' was used by the engine of
\* 'HIDALGO'
LaterOfTwoEarlierUsed ==
  /\ xref.pc = "done"
  /\ xref.county = "HIDALGO"
  /\ xref.current_election_date = MaxDate + 1
  /\ Cardinality(DOMAIN data_dir) = 2
  /\ \E n \in xref.used :
       /\ data_dir[n].meta.county = "hidalgo"
       /\ data_dir[n].meta.election_date = 2
       /\ \E m \in DOMAIN data_dir : data_dir[m].meta.election_date = 1

\* the party names that 'democrat'/'dem' and 'republican'/'rep' occur in,
\* without regard to case
PartyClass(party) ==
  CASE party \in {"Democratic", "DEMOCRATIC PARTY", "DEM", "D"} -> "democratic"
    [] party \in {"Republican", "REP", "R"} -> "republican"
    [] OTHER -> party

\* C25: get_previous_party returns a prior party only when it and the
\* voter's current party are in different classes under the comparison
\* without regard to case and by substring: prior and current values that
\* name the same party in another case or spelling give ''.
PreviousPartyOfOtherClass ==
  (xref.pc = "done" /\ xref.previous_party # "") =>
    PartyClass(xref.previous_party) # PartyClass(CurrentPartyFromRow(xref.row))

\* the features of the dataset used that carry the row's voter id
IdMatches ==
  {f \in UNION {{data_dir[n].features[i] : i \in 1..Len(data_dir[n].features)} : n \in xref.used} :
     xref.row.vuid # << >> /\ f.vuid = xref.row.vuid}

\* the features of the dataset used with the row's names and rounded coordinates
NameMatches ==
  {f \in UNION {{data_dir[n].features[i] : i \in 1..Len(data_dir[n].features)} : n \in xref.used} :
     /\ xref.row.lastname # "" /\ xref.row.firstname # ""
     /\ UpperName(f.lastname) = UpperName(xref.row.lastname)
     /\ UpperName(f.firstname) = UpperName(xref.row.firstname)
     /\ Round4(f.geometry) = Round4(xref.row.lat)
     /\ Round4(f.lng) = Round4(xref.row.lng)}

\* C26: the identity-id match takes precedence: when the voter's id is in
\* the id lookup the prior party is that of the id match, whatever the name
\* and coordinate key would give; the name and coordinate key decides only
\* when the id is empty or absent from the id lookup.
IdMatchTakesPrecedence ==
  (xref.pc = "done" /\ xref.previous_party # "") =>
    IF IdMatches # {}
      THEN \E f \in IdMatches : f.party_affiliation_current = xref.previous_party
      ELSE \E f \in NameMatches : f.party_affiliation_current = xref.previous_party

\* the id matched a Republican record while the names and coordinates
\* matched a Democratic one: the previous party returned is the id's
IdMatchOverNameMatch ==
  /\ xref.pc = "done"
  /\ xref.previous_party = "Republican"
  /\ \E f \in IdMatches : f.party_affiliation_current = "Republican"
  /\ \E f \in NameMatches : f.party_affiliation_current = "Democratic"

\* the lookup VUIDResolver('hidalgo').build_lookup() makes of the data directory
HidalgoLookup == build_lookup(data_dir, "hidalgo")

\* the dated output files of the county, cumulative files left out, that hold the id
DatedFilesHolding(id) ==
  {n \in DOMAIN data_dir :
     /\ n.county = "hidalgo"
     /\ n.date \in Dates
     /\ \E i \in 1..Len(data_dir[n].features) : normalize_vuid(data_dir[n].features[i].vuid) = id}

\* some dated file of the county holds the id with coordinates
LocationKnown(id) ==
  \E n \in DatedFilesHolding(id) : \E i \in 1..Len(data_dir[n].features) :
    /\ normalize_vuid(data_dir[n].features[i].vuid) = id
    /\ data_dir[n].features[i].geometry \in Places

AbbreviateState(str) == [i \in 1..Len(str) |-> IF str[i] = "TEXAS" THEN "TX" ELSE str[i]]

\* C28: get(a) tries the normalized key first; when the cache has no entry
\* under it but one under the same key with the state written 'TX',
\* wherever the state stands in the key, its end included, get(a) returns
\* that entry.
LegacyKeyTolerated ==
  \A addr \in CacheAddrs :
    LET norm_key == normalize_address(addr)
    IN  caches[1].pc = "idle" =>
          /\ HasKey(caches[1].cache, norm_key) => CacheGet(caches[1].cache, addr) = DictGet(caches[1].cache, norm_key)
          /\ (~HasKey(caches[1].cache, norm_key) /\ HasKey(caches[1].cache, AbbreviateState(norm_key))) =>
               CacheGet(caches[1].cache, addr) = DictGet(caches[1].cache, AbbreviateState(norm_key))

\* the pair of files the standard job of the last step wrote for itself
OwnOutputs == {FileName(last_job'.county, "", last_job'.date), Latest}

\* C29: re_resolve_unmatched leaves untouched every roster file in which no
\* feature changed: the file and its metadata are neither rewritten in the
\* data directory nor copied to the public directory; and a feature that was
\* matched already is never modified.
UnchangedRosterFilesUntouched ==
  [][StandardJobDone =>
       \A n \in DOMAIN data_dir \ OwnOutputs :
         /\ data_dir'[n].features = data_dir[n].features =>
              /\ n \notin last_job'.rewritten
              /\ n \notin last_job'.copied
              /\ data_dir'[n] = data_dir[n]
              /\ n \in DOMAIN public_dir => public_dir'[n] = public_dir[n]
              /\ n \in DOMAIN public_dir' => n \in DOMAIN public_dir
         /\ \A i \in 1..Len(data_dir[n].features) :
              ~data_dir[n].features[i].unmatched =>
                data_dir'[n].features[i] = data_dir[n].features[i]]_vars

\* a standard job re-resolved a voter in one early vote file and left
\* another, which holds an unmatched voter still, as it was
OneRewrittenOneUntouched ==
  /\ last_job.kind = "standard"
  /\ last_job.status = "completed"
  /\ last_job.rewritten # {}
  /\ \E n \in DOMAIN data_dir \ last_job.rewritten :
       /\ data_dir[n].meta.is_early_voting
       /\ n.county = last_job.county
       /\ \E i \in 1..Len(data_dir[n].features) : data_dir[n].features[i].unmatched

\* the dataset key of a metadata document
DatasetKey(meta) ==
  <<meta.county, meta.year, meta.election_type, meta.election_date, meta.voting_method,
    meta.primary_party>>

\* the persisted pairs of a directory that hold the key, the default
\* ('latest') pair aside
PairsOf(dir, key) == {n \in DOMAIN dir \ {DefaultName} : DatasetKey(dir[n]) = key}

\* at most one pair per key, in the data directory and in the public one
OnePairPerKey ==
  \A dir \in {data_meta, public_meta} :
    \A n1, n2 \in DOMAIN dir \ {DefaultName} :
      DatasetKey(dir[n1]) = DatasetKey(dir[n2]) => n1 = n2

\* the job the last step created
Created == created_jobs'[Len(created_jobs')]

\* an upload with action 'replace' was accepted while a pair of its key was
\* deployed, and it deleted a pair
ReplacementAccepted ==
  /\ last_upload'.outcome = "queued"
  /\ Len(created_jobs') = Len(created_jobs) + 1
  /\ PairsOf(public_meta, DatasetKey(Created)) # {}
  /\ public_meta' # public_meta

\* the accepted replacement has removed the prior pair of its key
PriorPairRemoved ==
  ReplacementAccepted =>
    /\ PairsOf(public_meta', DatasetKey(Created)) = {}
    /\ PairsOf(data_meta', DatasetKey(Created)) = {}

\* C30: after any sequence of accepted uploads with duplicate action skip,
\* replace or ignore, at most one persisted pair exists per dataset key, in
\* the data directory and in the public directory, and a replacement has
\* removed the prior pair of its key before the new one is written.
OneDatasetPerKey == [][OnePairPerKey' /\ PriorPairRemoved]_vars

\* the step is a pass of upload_csv
Uploaded == last_upload'.outcome \in {"queued", "skipped", "invalid"}

\* the deployed documents that agree with the upload on all six key fields
SameKey(public, meta) ==
  {n \in DOMAIN public : DatasetKey(public[n]) = DatasetKey(meta)}

\* C31: an upload is treated as a duplicate, that is skipped or its match
\* deleted under 'replace', only when an existing metadata document agrees
\* with it on all six key fields, party included; an upload that differs
\* from every existing dataset is not skipped and deletes nothing.
DuplicateOnlyOnFullKey ==
  [][Uploaded =>
       /\ last_upload'.outcome = "skipped" => SameKey(public_meta, last_upload'.meta) # {}
       /\ \A n \in DOMAIN public_meta \ DOMAIN public_meta' :
            DatasetKey(public_meta[n]) = DatasetKey(last_upload'.meta)]_vars

\* the schedulers inside job.run()
InRun == {t \in 1..Len(schedulers) : schedulers[t].pc = "in_run"}

\* the thread that holds the lock leaves its block
LeavesBlock ==
  \/ UploadRegister
  \/ StatusRelease
  \/ \E t \in 1..Len(schedulers) : PollRelease(t) \/ SaveRelease(t)

\* C32: a scheduler holds jobs_lock only while it inspects or updates the
\* queue and the registry, never while the run() of a job of its own
\* executes; whoever holds the lock can leave its block at once, whatever
\* the jobs do, so a status query or an upload gets the lock while jobs run.
LockNeverHeldInRun ==
  /\ jobs_lock \notin InRun
  /\ \A t \in 1..Len(schedulers) :
       jobs_lock = t => schedulers[t].pc = "poll" \/ t \in saving
  /\ jobs_lock # 0 => ENABLED LeavesBlock

\* get_status holds the lock while a job is inside run()
StatusReadDuringRun ==
  /\ jobs_lock = StatusThread
  /\ InRun # {}
  /\ \E j \in DOMAIN active_jobs : active_jobs[j] = "running"

\* the job's input has an identity-id column and no address column
IdOnlyInput ==
  /\ current_job.columns \cap COLUMN_ALIASES_vuid # {}
  /\ current_job.columns \cap ADDRESS_ALIASES = {}

\* the rows of the input with a non-empty id
RowsWithId == {i \in 1..Len(current_job.rows) : current_job.rows[i]}

\* the positions of run() on the VUID path
VuidPath == {"run", "roster", "resolve", "deploy_roster", "complete", "done"}

\* the job is on the VUID path and has called no provider, written no cache
\* entry and no file of the standard outputs
VuidPathOnly ==
  /\ current_job.pc \in VuidPath
  /\ current_job.api_calls = 0
  /\ current_job.cache_writes = 0
  /\ disk.cache = disk_before.cache
  /\ current_job.misses = {}
  /\ current_job.errors = << >>
  /\ current_job.written \subseteq Members(SnapshotOutputs)
  /\ current_job.copied \subseteq Members(SnapshotOutputs)

Ended == current_job.pc = "done" /\ current_job.status # "none"

\* the claim as it stands: the job of an id-only input stays on the VUID
\* path and ends 'completed' with every row that has an id emitted
RosterAlwaysCompletes ==
  IdOnlyInput =>
    /\ VuidPathOnly
    /\ Ended => /\ current_job.status = "completed"
                /\ Members(current_job.results) = RowsWithId

\* C33: a job whose input has an identity-id column and no address column
\* takes the VUID path only: it never runs the clean, geocode or standard
\* output steps, makes no provider call and no address-cache write; it ends
\* 'failed' exactly when no row has a non-empty id or a step of the path
\* raises (a write or a copy of an output file fails), and otherwise ends
\* 'completed' with every input row that has a non-empty id emitted as a
\* feature, matched or unmatched.
RosterTakesVuidPathOnly ==
  IdOnlyInput =>
    /\ VuidPathOnly
    /\ Ended =>
         /\ current_job.status \in {"completed", "failed"}
         /\ current_job.status = "failed" <=> (RowsWithId = {} \/ current_job.fault)
         /\ current_job.status = "completed" =>
              /\ Members(current_job.results) = RowsWithId
              /\ Len(current_job.results) = Cardinality(RowsWithId)
              /\ current_job.unmatched \subseteq RowsWithId
              /\ disk.snapshot = RowsWithId

\* a roster with a row without id ended 'completed' and emitted its other
\* row, which no dataset locates, as an unmatched feature
RosterCompletedWithUnmatched ==
  /\ IdOnlyInput
  /\ Ended
  /\ current_job.status = "completed"
  /\ RowsWithId # 1..Len(current_job.rows)
  /\ current_job.unmatched # {}
  /\ current_job.unmatched \subseteq Members(current_job.results)

RosterJobDone == last_job'.count # last_job.count /\ last_job'.kind = "roster"

\* the daily roster snapshots of the key of a cumulative file, after the step
KeySnapshots(cum) ==
  {n \in DOMAIN data_dir' : /\ n.county = cum.county
                            /\ n.party = cum.party
                            /\ n.date \in Dates
                            /\ data_dir'[n].meta.is_early_voting}

\* C34: the cumulative file a roster job writes for its dataset key is built
\* only from daily roster snapshots of that key: each of its features is a
\* feature of such a snapshot, none comes from a snapshot of another party
\* or from a standard dataset, also when the job's party is empty.
CumulativeOfOwnKeyOnly ==
  [][RosterJobDone =>
       LET cum == FileName(last_job'.county, last_job'.party, Cumulative)
           merged == data_dir'[cum].features
       IN  \A i \in 1..Len(merged) :
             \E n \in KeySnapshots(cum) :
               \E idx \in 1..Len(data_dir'[n].features) :
                 data_dir'[n].features[idx] = merged[i]]_vars

\* thread t has just left generate_outputs with its last file written
GenerateReturned(t) ==
  /\ processors[t].job # 0
  /\ processors'[t].job = 0
  /\ outputs' # outputs

\* the default pair holds what the key-named pair of the job holds
AliasEqualsNamed(job) ==
  /\ outputs'[<<"map_data.json">>] = outputs'[<<"map_data", job>>]
  /\ outputs'[<<"metadata.json">>] = outputs'[<<"metadata", job>>]

\* no job is inside generate_outputs
NoneGenerating == \A t \in 1..Len(processors) : processors[t].job = 0

\* between the jobs, the two default files come from the same job
AliasPairOfOneJob ==
  (NoneGenerating /\ {<<"map_data.json">>, <<"metadata.json">>} \subseteq DOMAIN outputs) =>
    outputs[<<"map_data.json">>] = outputs[<<"metadata.json">>]

\* C35: after generate_outputs of a standard job, the default pair
\* (map_data.json, metadata.json) has the content of that job's key-named
\* pair; and after any sequence or interleaving of jobs, once they are over,
\* the two default files come from the same job.
AliasPairConsistent ==
  [][/\ \A t \in 1..Len(processors) :
          GenerateReturned(t) => AliasEqualsNamed(processors[t].job)
     /\ AliasPairOfOneJob']_vars

\* the HTTP requests the geocode() call has sent to Nominatim
NominatimRequests == {i \in 1..Len(geo.calls) : geo.calls[i] = "nominatim"}

\* C36: every HTTP request sent to Nominatim, the retries after a 429
\* response and the ZIP fallback request included, is preceded by its own
\* admission through RateLimiter.wait(): a geocode() call has never sent
\* more requests to Nominatim than it has made wait() calls.
EveryRequestAdmitted == Cardinality(NominatimRequests) <= geo.waits
\* C37: in every feature a standard job emits, party_affiliation_previous is
\* empty or names another party than the feature's
\* party_affiliation_current, also when the current party comes from the
\* form's primary party alone.
PreviousDiffersFromCurrent ==
  (xref.pc = "done" /\ xref.previous_party # "") =>
    PartyClass(xref.previous_party) # PartyClass(xref.party_affiliation_current)

\* the same for the features whose row has a PARTY value
PreviousDiffersWithPartyColumn ==
  (xref.pc = "done" /\ xref.previous_party # "" /\ xref.row.party # "") =>
    xref.previous_party # xref.party_affiliation_current

\* the same for the features whose current party is the form's primary party
PreviousDiffersFromFormParty ==
  (xref.pc = "done" /\ xref.previous_party # "" /\ xref.row.party = "") =>
    xref.previous_party # xref.party_affiliation_current

\* the roster output files of the data directory: daily snapshots and cumulatives
RosterFiles == {n \in DOMAIN data_dir : data_dir[n].meta.is_early_voting}

\* C38: in every roster output file, after any sequence of roster jobs,
\* standard jobs and re-resolutions, a feature has null geometry exactly
\* when its unmatched flag is true.
NullGeometryIffUnmatched ==
  \A n \in RosterFiles : \A i \in 1..Len(data_dir[n].features) :
    (data_dir[n].features[i].geometry = NoGeometry) <=> data_dir[n].features[i].unmatched

\* one half of it: an unmatched feature has no geometry
UnmatchedHasNullGeometry ==
  \A n \in RosterFiles : \A i \in 1..Len(data_dir[n].features) :
    data_dir[n].features[i].unmatched => data_dir[n].features[i].geometry = NoGeometry

\* the dataset key of a metadata document, its date taken by its day: two
\* spellings of one day are one date
KeyByDay(meta) ==
  <<meta.county, meta.year, meta.election_type, meta.primary_party,
    DateStr(meta.election_date), meta.voting_method>>

\* the key-named files a step writes over, in a directory
Overwritten(dir_before, dir_after) ==
  {n \in (DOMAIN dir_before \cap DOMAIN dir_after) \ {DefaultName} : dir_after[n] # dir_before[n]}

\* C39: two jobs with different dataset keys never write the same key-named
\* files: a job that writes over a persisted key-named file has the key of
\* the dataset that file held, also when the keys differ in the voting
\* method alone.
NoOverwriteAcrossKeys ==
  [][/\ \A n \in Overwritten(data_meta, data_meta') :
          KeyByDay(data_meta'[n]) = KeyByDay(data_meta[n])
     /\ \A n \in Overwritten(public_meta, public_meta') :
          KeyByDay(public_meta'[n]) = KeyByDay(public_meta[n])]_vars

\* the same with the voting method left out of the key
NoOverwriteAcrossNamedFields ==
  [][\A n \in Overwritten(data_meta, data_meta') :
       MetaName(data_meta'[n]) = MetaName(data_meta[n])]_vars

\* the step enters run() of job j
RunInvoked(j) == run_pc'[j] = "validate" /\ run_pc[j] # "validate"

\* run() is entered only for a job that was never started
InvokedOnce == \A j \in DOMAIN run_pc : RunInvoked(j) => run_pc[j] = "queued"

\* run() is entered for a job only when every job queued before it was
\* started; job ids count up in the order of the queue
InvokedInQueueOrder ==
  \A j \in DOMAIN run_pc : RunInvoked(j) => \A i \in 1..(j - 1) : run_pc[i] # "queued"

\* C40: for any interleaving of upload requests and scheduler threads, run()
\* of each accepted job is invoked once, and the jobs are started in the
\* order they were queued.
RunOnceInQueueOrder == [][InvokedOnce /\ InvokedInQueueOrder]_vars

\* the first half alone
RunAtMostOnce == [][InvokedOnce]_vars

\* the order, while a single 'job_processor' thread exists
InOrderWithOneProcessor == [][Len(schedulers) <= 1 => InvokedInQueueOrder]_vars

====
